---- MODULE Spec2Model ----
(***************************************************************************)
(* Model of QNET's symbolic-to-numeric conversion (qnet/convert/to_qutip). *)
(* An expression, an ambient space and a mapping are drawn from bounded    *)
(* sets; the actions apply convert_to_qutip / SLH_to_qutip to them.        *)
(* Numbers are Gaussian integers <<re, im>>, matrices are sequences of     *)
(* rows, a Qobj is a record of dims, data, isherm and type.                *)
(***************************************************************************)
EXTENDS Integers, Sequences, FiniteSets, TLC

VARIABLES pc, call, expr, full_space, mapping, slh, time_symbol, convert_as,
          result, dense_limit, component, registry, cache, cached_rendering

vars == <<pc, call, expr, full_space, mapping, slh, time_symbol, convert_as,
          result, dense_limit, component, registry, cache, cached_rendering>>

(***************************************************************************)
(* Bounds of the model.                                                    *)
(***************************************************************************)
\* number of small local Hilbert spaces, named 1..NumLocal
NumLocal == 2

\* largest number of rows of the L matrix of an SLH triple
MaxChannels == 2

(***************************************************************************)
(* Complex numbers with integer parts.                                     *)
(***************************************************************************)
CZero == <<0, 0>>

COne == <<1, 0>>

CI == <<0, 1>>

CAdd(a, b) == <<a[1] + b[1], a[2] + b[2]>>

CMul(a, b) == <<a[1] * b[1] - a[2] * b[2], a[1] * b[2] + a[2] * b[1]>>

CConj(a) == <<a[1], 0 - a[2]>>

\* i^k, the value of cos(k pi/2) + 1j sin(k pi/2)
CPowI(k) ==
  LET r == k % 4
  IN  IF r = 0 THEN <<1, 0>> ELSE IF r = 1 THEN <<0, 1>>
      ELSE IF r = 2 THEN <<-1, 0>> ELSE <<0, -1>>

\* the square root of a perfect square (the only roots the model takes)
ISqrt(k) == CHOOSE r \in 0..k : r * r = k

(***************************************************************************)
(* Matrices: M[i][j], i in 1..Rows(M), j in 1..Cols(M).                    *)
(***************************************************************************)
Rows(M) == Len(M)

Cols(M) == IF Len(M) = 0 THEN 0 ELSE Len(M[1])

MatEye(n) == [i \in 1..n |-> [j \in 1..n |-> IF i = j THEN COne ELSE CZero]]

MatZeros(n, m) == [i \in 1..n |-> [j \in 1..m |-> CZero]]

MatAdd(A, B) == [i \in 1..Rows(A) |-> [j \in 1..Cols(A) |-> CAdd(A[i][j], B[i][j])]]

MatScale(c, A) == [i \in 1..Rows(A) |-> [j \in 1..Cols(A) |-> CMul(c, A[i][j])]]

RECURSIVE DotFrom(_, _, _, _, _)
DotFrom(A, B, i, j, k) ==
  IF k > Cols(A) THEN CZero
  ELSE CAdd(CMul(A[i][k], B[k][j]), DotFrom(A, B, i, j, k + 1))

MatMul(A, B) == [i \in 1..Rows(A) |-> [j \in 1..Cols(B) |-> DotFrom(A, B, i, j, 1)]]

\* conjugate transpose
MatDag(A) == [i \in 1..Cols(A) |-> [j \in 1..Rows(A) |-> CConj(A[j][i])]]

\* Kronecker product
MatKron(A, B) ==
  LET rb == Rows(B)
      cb == Cols(B)
  IN  [i \in 1..(Rows(A) * rb) |->
        [j \in 1..(Cols(A) * cb) |->
          CMul(A[((i - 1) \div rb) + 1][((j - 1) \div cb) + 1],
               B[((i - 1) % rb) + 1][((j - 1) % cb) + 1])]]

IsZeroMat(A) == \A i \in 1..Rows(A) : \A j \in 1..Cols(A) : A[i][j] = CZero

RECURSIVE SeqProd(_)
SeqProd(s) == IF Len(s) = 0 THEN 1 ELSE Head(s) * SeqProd(Tail(s))

(***************************************************************************)
(* Hilbert spaces.  A local space is named by a number; a (product) space  *)
(* is the set of its local factors, the trivial space is {}.  A value      *)
(* passed as full_space is a record: None, a space, or (the ket rules pass *)
(* full_space.dimension) a plain integer.                                  *)
(***************************************************************************)
\* two large local spaces, named by their dimension, used to reach the
\* dense-dimension threshold: 2 * 500 = 1000 and 1001
BigIds == {500, 1001}

LocalIds == (1..NumLocal) \cup BigIds

\* dimension of a local space: 2 and 3 alternate among the small ones
LocalDim(s) ==
  IF s \in BigIds THEN s
  ELSE IF s % 2 = 1 THEN 2 ELSE 3

NoneArg == [kind |-> "None", factors |-> {}, n |-> 0]

Space(S) == [kind |-> "space", factors |-> S, n |-> 0]

IntArg(k) == [kind |-> "int", factors |-> {}, n |-> k]

TrivialSpace == {}

\* full_space.local_factors(): the local factors in canonical (name) order
RECURSIVE SortedSeq(_)
SortedSeq(S) ==
  IF S = {} THEN <<>>
  ELSE LET m == CHOOSE x \in S : \A y \in S : x <= y
       IN  <<m>> \o SortedSeq(S \ {m})

local_factors(S) == SortedSeq(S)

\* s.dimension for every s of a list of local spaces
DimsOf(ls) == [i \in 1..Len(ls) |-> LocalDim(ls[i])]

\* full_space.dimension
dimension(S) == SeqProd(DimsOf(local_factors(S)))

\* all_spaces.index(ls)
IndexOf(seq, x) == CHOOSE i \in 1..Len(seq) : seq[i] = x

(***************************************************************************)
(* Numeric objects (qutip.Qobj) and the qutip functions the code calls.    *)
(***************************************************************************)
IsHermData(A) == Rows(A) = Cols(A) /\ A = MatDag(A)

TypeOfData(A) ==
  IF Cols(A) = 1 /\ Rows(A) > 1 THEN "ket"
  ELSE IF Rows(A) = 1 /\ Cols(A) > 1 THEN "bra" ELSE "oper"

\* qutip.Qobj(data, dims=dims)
MkQobj(dims, A) ==
  [dims |-> dims, data |-> A, isherm |-> IsHermData(A), type |-> TypeOfData(A)]

\* qutip.Qobj(array): one tensor factor
Qobj(A) == MkQobj(<<<<Rows(A)>>, <<Cols(A)>>>>, A)

NoQobj == [dims |-> <<<<>>, <<>>>>, data |-> <<>>, isherm |-> FALSE, type |-> "none"]

qeye(n) == Qobj(MatEye(n))

\* qutip.create(n): <m+1| a^dagger |m> = sqrt(m+1)
create(n) ==
  Qobj([i \in 1..n |-> [j \in 1..n |-> IF i = j + 1 THEN <<ISqrt(j), 0>> ELSE CZero]])

\* qutip.destroy(n): <m| a |m+1> = sqrt(m+1)
destroy(n) ==
  Qobj([i \in 1..n |-> [j \in 1..n |-> IF j = i + 1 THEN <<ISqrt(i), 0>> ELSE CZero]])

\* qutip.basis(n, k): the k-th basis ket, k counted from 0
basis(n, k) ==
  Qobj([i \in 1..n |-> [j \in 1..1 |-> IF i = k + 1 THEN COne ELSE CZero]])

\* q.dag()
QDag(q) == MkQobj(<<q.dims[2], q.dims[1]>>, MatDag(q.data))

\* complex * Qobj
QScale(c, q) == MkQobj(q.dims, MatScale(c, q.data))

\* Qobj + Qobj is defined for equal dims only (qutip raises TypeError otherwise)
CanAdd(a, b) == a.dims = b.dims

QAdd(a, b) == MkQobj(a.dims, MatAdd(a.data, b.data))

\* Qobj * Qobj is defined when the inner dims agree (TypeError otherwise)
CanMul(a, b) == a.dims[2] = b.dims[1]

QMul(a, b) == MkQobj(<<a.dims[1], b.dims[2]>>, MatMul(a.data, b.data))

\* qutip.tensor(*qs) for a non-empty list: dims concatenated, data Kronecker
RECURSIVE tensor(_)
tensor(qs) ==
  IF Len(qs) = 1 THEN qs[1]
  ELSE LET r == tensor(Tail(qs))
       IN  MkQobj(<<qs[1].dims[1] \o r.dims[1], qs[1].dims[2] \o r.dims[2]>>,
                  MatKron(qs[1].data, r.data))

\* [qutip.qeye(s.dimension) for s in spaces]
QeyeList(ls) == [i \in 1..Len(ls) |-> qeye(LocalDim(ls[i]))]

\* [qutip.Qobj(csr_matrix((s.dimension, s.dimension))) for s in spaces]
ZeroList(ls) ==
  [i \in 1..Len(ls) |-> Qobj(MatZeros(LocalDim(ls[i]), LocalDim(ls[i])))]

\* scipy.linalg.pinv(arr) on the matrices whose pseudo-inverse has integer
\* parts (partial isometries): the X with the four Moore-Penrose properties
MoorePenrose(A, X) ==
  /\ MatMul(MatMul(A, X), A) = A
  /\ MatMul(MatMul(X, A), X) = X
  /\ MatDag(MatMul(A, X)) = MatMul(A, X)
  /\ MatDag(MatMul(X, A)) = MatMul(X, A)

pinv(A) == CHOOSE X \in {MatDag(A)} : MoorePenrose(A, X)

\* scipy.linalg.svd(arr) as used for the null-space projector, on the
\* matrices whose columns are mutually orthogonal: the right-singular vectors
\* are then the unit vectors e_j, with singular value the norm of column j.
ColumnIsZero(A, j) == \A i \in 1..Rows(A) : A[i][j] = CZero

ColumnsOrthogonal(A) ==
  LET G == MatMul(MatDag(A), A)
  IN  \A i \in 1..Cols(A) : \A j \in 1..Cols(A) : i # j => G[i][j] = CZero

\* zero_svs = s < 1e-8 * s[0], per right-singular vector e_j: s[0] is the
\* largest singular value, which is 0 exactly when arr is the zero matrix,
\* and then no singular value is below the tolerance 0
ZeroSvs(A) ==
  IF IsZeroMat(A) THEN {}
  ELSE {j \in 1..Cols(A) : ColumnIsZero(A, j)}

\* Vhzero.conjugate().transpose().dot(Vhzero)
NullProjector(A) ==
  LET ok == CHOOSE b \in {TRUE} : ColumnsOrthogonal(A)
      Z  == ZeroSvs(A)
  IN  [i \in 1..Cols(A) |->
        [j \in 1..Cols(A) |-> IF ok /\ i = j /\ j \in Z THEN COne ELSE CZero]]

(***************************************************************************)
(* Symbolic expressions.  Every expression is a record                     *)
(*   kind: the class, ls: the declared space (a set of local spaces; for   *)
(*   OperatorTrace the space traced over), args: its number arguments,     *)
(*   ops: its operand expressions.                                         *)
(***************************************************************************)
Expr(kind, ls, args, ops) == [kind |-> kind, ls |-> ls, args |-> args, ops |-> ops]

IdentityOperator == Expr("IdentityOperator", {}, <<>>, <<>>)

ZeroOperator == Expr("ZeroOperator", {}, <<>>, <<>>)

Create(s) == Expr("Create", {s}, <<>>, <<>>)

Destroy(s) == Expr("Destroy", {s}, <<>>, <<>>)

Jz(s) == Expr("Jz", {s}, <<>>, <<>>)

Jplus(s) == Expr("Jplus", {s}, <<>>, <<>>)

Jminus(s) == Expr("Jminus", {s}, <<>>, <<>>)

\* Phase(s, phi) with phi = k * pi/2
Phase(s, k) == Expr("Phase", {s}, <<k>>, <<>>)

Displace(s, alpha) == Expr("Displace", {s}, <<alpha>>, <<>>)

Squeeze(s, eta) == Expr("Squeeze", {s}, <<eta>>, <<>>)

\* LocalSigma(s, j, k) = |j><k|, basis labels 0..dim-1
LocalSigma(s, j, k) == Expr("LocalSigma", {s}, <<j, k>>, <<>>)

\* a symbol named id on the space S (local or product)
OperatorSymbol(id, S) == Expr("OperatorSymbol", S, <<id>>, <<>>)

OperatorPlus(ops) == Expr("OperatorPlus", {}, <<>>, ops)

OperatorTimes(ops) == Expr("OperatorTimes", {}, <<>>, ops)

\* coeff = re + im*I
ScalarTimesOperator(re, im, term) == Expr("ScalarTimesOperator", {}, <<re, im>>, <<term>>)

Adjoint(op) == Expr("Adjoint", {}, <<>>, <<op>>)

PseudoInverse(op) == Expr("PseudoInverse", {}, <<>>, <<op>>)

NullSpaceProjector(op) == Expr("NullSpaceProjector", {}, <<>>, <<op>>)

OperatorTrace(over, op) == Expr("OperatorTrace", over, <<>>, <<op>>)

\* BasisKet(s, label): the basis ket of s with that label, labels 0..dim-1
BasisKet(s, label) == Expr("BasisKet", {s}, <<label>>, <<>>)

CoherentStateKet(s, alpha) == Expr("CoherentStateKet", {s}, <<alpha>>, <<>>)

KetSymbol(id, S) == Expr("KetSymbol", S, <<id>>, <<>>)

KetPlus(ops) == Expr("KetPlus", {}, <<>>, ops)

TensorKet(ops) == Expr("TensorKet", {}, <<>>, ops)

ScalarTimesKet(re, im, term) == Expr("ScalarTimesKet", {}, <<re, im>>, <<term>>)

\* expr.coeff is the operator, expr.term the ket
OperatorTimesKet(coeff, term) == Expr("OperatorTimesKet", {}, <<>>, <<coeff, term>>)

KetKinds ==
  {"BasisKet", "CoherentStateKet", "KetSymbol", "KetPlus", "TensorKet",
   "ScalarTimesKet", "OperatorTimesKet"}

\* isinstance(expr, Ket)
IsKet(e) == e.kind \in KetKinds

\* a plain number re + im*I (an entry of a matrix that is no Operator)
Scalar(re, im) == Expr("Scalar", {}, <<re, im>>, <<>>)

LocalOperatorKinds ==
  {"Create", "Destroy", "Jz", "Jplus", "Jminus", "Phase", "Displace",
   "Squeeze", "LocalSigma"}

OperatorOperationKinds ==
  {"OperatorPlus", "OperatorTimes", "Adjoint", "PseudoInverse", "NullSpaceProjector"}

\* isinstance(L, Operator)
IsOperator(e) ==
  e.kind \in LocalOperatorKinds \cup OperatorOperationKinds
             \cup {"IdentityOperator", "ZeroOperator", "OperatorSymbol",
                   "ScalarTimesOperator", "OperatorTrace"}

\* isinstance(expr, LocalOperator)
IsLocalOperator(e) == e.kind \in LocalOperatorKinds

\* isinstance(expr, OperatorOperation)
IsOperatorOperation(e) == e.kind \in OperatorOperationKinds

\* expr.space: the product of the operands' spaces; the placeholders have
\* the trivial space, a trace the operand's space less the traced one
RECURSIVE space(_)
RECURSIVE SpaceUnion(_, _)
SpaceUnion(ops, i) ==
  IF i > Len(ops) THEN {} ELSE space(ops[i]) \cup SpaceUnion(ops, i + 1)

space(e) ==
  IF Len(e.ops) = 0 THEN e.ls
  ELSE IF e.kind = "OperatorTrace" THEN space(e.ops[1]) \ e.ls
  ELSE SpaceUnion(e.ops, 1)

\* expr.space.is_tensor_factor_of(full_space); an integer has no factors
is_tensor_factor_of(S, fs) == fs.kind = "space" /\ S \subseteq fs.factors

(***************************************************************************)
(* Symbolic scalars.  A coefficient or parameter that is a sympy expression *)
(* is given by text, the characters of str(coeff), and syms, its free      *)
(* symbols; a number is given by its real and imaginary part.              *)
(***************************************************************************)
IsSymbolic(args) == Len(args) = 3

\* coeff * term with a symbolic coeff
SymbolicTimesOperator(text, syms, term) ==
  Expr("ScalarTimesOperator", {}, <<text, syms, "sympy">>, <<term>>)

\* Phase(phi, hs=s) with a symbolic phi
SymbolicPhase(s, text, syms) == Expr("Phase", {s}, <<text, syms, "sympy">>, <<>>)

\* expr.all_symbols(): the free symbols of the scalars in expr
RECURSIVE all_symbols(_)
RECURSIVE SymbolsUnion(_, _)
SymbolsUnion(ops, i) ==
  IF i > Len(ops) THEN {} ELSE all_symbols(ops[i]) \cup SymbolsUnion(ops, i + 1)

all_symbols(e) ==
  (IF IsSymbolic(e.args) THEN e.args[2] ELSE {}) \cup SymbolsUnion(e.ops, 1)

(***************************************************************************)
(* The mapping argument: None, or a dict from expressions to values; a     *)
(* value is a Qobj, a callable (given by its graph fn) or something else.  *)
(***************************************************************************)
NoMapping == [none |-> TRUE, d |-> <<>>]

Mapping(d) == [none |-> FALSE, d |-> d]

QobjValue(q) == [isQobj |-> TRUE, callable |-> FALSE, q |-> q, fn |-> <<>>]

CallableValue(fn) == [isQobj |-> FALSE, callable |-> TRUE, q |-> NoQobj, fn |-> fn]

(***************************************************************************)
(* Outcome of a call: status "ok" with the object returned, or the name of *)
(* the exception raised and no object; trace lists, in order, the calls of *)
(* convert_to_qutip made ("call"), the returns from the mapping ("mapped") *)
(* and the structural rules entered ("rule").                              *)
(***************************************************************************)
Ok(q, tr) == [status |-> "ok", q |-> q, trace |-> tr]

Fail(err, tr) == [status |-> err, q |-> NoQobj, trace |-> tr]

CallEv(e, fs) == [ev |-> "call", expr |-> e, fs |-> fs, q |-> NoQobj]

MappedEv(e, q) == [ev |-> "mapped", expr |-> e, fs |-> NoneArg, q |-> q]

RuleEv(e, fs) == [ev |-> "rule", expr |-> e, fs |-> fs, q |-> NoQobj]

After(tr, r) == [r EXCEPT !.trace = tr \o @]

\* the value the module global DENSE_DIMENSION_LIMIT is given at import; the
\* variable dense_limit is the global as the calls read it
DENSE_DIMENSION_LIMIT == 1000

\* qutip.displace(n, alpha), for alpha = 0: the identity
displace(n, alpha) == CHOOSE q \in {qeye(n)} : alpha = 0

\* qutip.Qobj(np_diag(cos(arg) + 1j*sin(arg))), arg = phi * arange(n), phi = k pi/2
PhaseMatrix(n, k) ==
  Qobj([i \in 1..n |-> [j \in 1..n |-> IF i = j THEN CPowI(k * (i - 1)) ELSE CZero]])

\* se = expr.expand() of an OperatorTimes whose operands are not themselves
\* products: the product is distributed over every operand that is a sum
\* (likewise a TensorKet over every operand that is a KetPlus)
PlusKindOf(k) == IF k = "OperatorTimes" THEN "OperatorPlus" ELSE "KetPlus"

RECURSIVE ExpandTimes(_, _, _)
RECURSIVE ExpandTerms(_, _, _, _, _)
ExpandTerms(k, pre, sum, post, i) ==
  IF i > Len(sum) THEN <<>>
  ELSE ExpandTimes(k, pre \o <<sum[i]>>, post) \o ExpandTerms(k, pre, sum, post, i + 1)

\* the summands of pre * post, pre already free of sums
ExpandTimes(k, pre, post) ==
  IF Len(post) = 0 THEN <<Expr(k, {}, <<>>, pre)>>
  ELSE IF Head(post).kind = PlusKindOf(k)
       THEN ExpandTerms(k, pre, Head(post).ops, Tail(post), 1)
       ELSE ExpandTimes(k, pre \o <<Head(post)>>, Tail(post))

expand(e) ==
  IF /\ e.kind \in {"OperatorTimes", "TensorKet"}
     /\ \E i \in 1..Len(e.ops) : e.ops[i].kind = PlusKindOf(e.kind)
  THEN Expr(PlusKindOf(e.kind), {}, <<>>, ExpandTimes(e.kind, <<>>, e.ops))
  ELSE IF e.kind = "ScalarTimesOperator" /\ e.ops[1].kind = "OperatorPlus"
  THEN Expr("OperatorPlus", {}, <<>>,
            [i \in 1..Len(e.ops[1].ops) |->
               Expr("ScalarTimesOperator", {}, e.args, <<e.ops[1].ops[i]>>)])
  ELSE e

(***************************************************************************)
(* convert_to_qutip and its helpers.                                       *)
(***************************************************************************)
RECURSIVE convert_to_qutip(_, _, _)
RECURSIVE _convert_local_operator_to_qutip(_, _, _)
RECURSIVE _convert_operator_operation_to_qutip(_, _, _)
RECURSIVE _convert_ket_to_qutip(_, _, _)
RECURSIVE SumOperands(_, _, _, _, _, _)
RECURSIVE ConvertList(_, _, _)
RECURSIVE GroupBySpace(_, _, _, _, _, _)

\* prod(ls_ops) = reduce(mul, ls_ops, 1): acc * ls_ops[i] * ..., TypeError
\* when two factors do not fit
RECURSIVE prod(_, _, _)
prod(acc, qs, i) ==
  IF i > Len(qs) THEN Ok(acc, <<>>)
  ELSE IF i = 1 THEN prod(QScale(COne, qs[1]), qs, 2)
  ELSE IF CanMul(acc, qs[i]) THEN prod(QMul(acc, qs[i]), qs, i + 1)
  ELSE Fail("TypeError", <<>>)

\* the mapping lookup of convert_to_qutip
MappingLookup(e, m, tr) ==
  LET ret == m.d[e]
  IN  IF ret.isQobj THEN Ok(ret.q, tr \o <<MappedEv(e, ret.q)>>)
      ELSE IF ret.callable THEN Ok(ret.fn[e], tr \o <<MappedEv(e, ret.fn[e])>>)
      ELSE Fail("AssertionError", tr)

\* variant: the factors are taken in reverse order
ConvertIdentity_reversed(fs) ==
  LET ls == local_factors(fs.factors)
      local_spaces == [j \in 1..Len(ls) |-> ls[Len(ls) + 1 - j]]
  IN  IF Len(local_spaces) = 0 THEN Fail("ValueError", <<>>)
      ELSE Ok(tensor(QeyeList(local_spaces)), <<>>)

\* expr is IdentityOperator
ConvertIdentity(fs) ==
  LET local_spaces == local_factors(fs.factors)
  IN  IF Len(local_spaces) = 0 THEN Fail("ValueError", <<>>)
      ELSE Ok(tensor(QeyeList(local_spaces)), <<>>)

\* expr is ZeroOperator; qutip.tensor() of no object raises TypeError
ConvertZero(fs) ==
  LET local_spaces == local_factors(fs.factors)
  IN  IF Len(local_spaces) = 0 THEN Fail("TypeError", <<>>)
      ELSE Ok(tensor(ZeroList(local_spaces)), <<>>)

\* complex(expr.coeff) * convert_to_qutip(expr.term, ...)
ConvertScalarTimes(e, fs, m) ==
  LET r == convert_to_qutip(e.ops[1], fs, m)
  IN  IF IsSymbolic(e.args) THEN Fail("TypeError", <<>>)
      ELSE IF r.status # "ok" THEN r
      ELSE Ok(QScale(<<e.args[1], e.args[2]>>, r.q), r.trace)

\* variant: a trace is converted as the identity
Dispatch_trace_identity(e, fs, m) ==
  IF e = IdentityOperator \/ e.kind = "OperatorTrace" THEN ConvertIdentity(fs)
  ELSE IF e = ZeroOperator THEN ConvertZero(fs)
  ELSE IF IsLocalOperator(e) THEN _convert_local_operator_to_qutip(e, fs, m)
  ELSE IF IsOperatorOperation(e) THEN _convert_operator_operation_to_qutip(e, fs, m)
  ELSE IF e.kind = "ScalarTimesOperator" THEN ConvertScalarTimes(e, fs, m)
  ELSE IF IsKet(e) THEN _convert_ket_to_qutip(e, fs, m)
  ELSE Fail("ValueError", <<>>)

\* the expression has passed the space check and is no key of the mapping
Dispatch(e, fs, m) ==
  IF e = IdentityOperator THEN ConvertIdentity(fs)
  ELSE IF e = ZeroOperator THEN ConvertZero(fs)
  ELSE IF IsLocalOperator(e) THEN _convert_local_operator_to_qutip(e, fs, m)
  ELSE IF IsOperatorOperation(e) THEN _convert_operator_operation_to_qutip(e, fs, m)
  ELSE IF e.kind = "ScalarTimesOperator" THEN ConvertScalarTimes(e, fs, m)
  ELSE IF e.kind = "OperatorTrace" THEN Fail("NotImplementedError", <<>>)
  ELSE IF IsKet(e) THEN _convert_ket_to_qutip(e, fs, m)
  ELSE Fail("ValueError", <<>>)

\* variant: the mapping is consulted before the space check
convert_to_qutip_mapping_first(e, fs0, m) ==
  LET fs == IF fs0.kind = "None" THEN Space(space(e)) ELSE fs0
      t0 == <<CallEv(e, fs)>>
  IN  IF ~m.none /\ e \in DOMAIN m.d THEN MappingLookup(e, m, t0)
      ELSE IF ~is_tensor_factor_of(space(e), fs) THEN Fail("ValueError", t0)
      ELSE After(t0 \o <<RuleEv(e, fs)>>, Dispatch(e, fs, m))

\* variant: the mapping is consulted only for expressions that have no
\* structural rule
convert_to_qutip_structure_first(e, fs0, m) ==
  LET fs == IF fs0.kind = "None" THEN Space(space(e)) ELSE fs0
      t0 == <<CallEv(e, fs)>>
  IN  IF ~is_tensor_factor_of(space(e), fs) THEN Fail("ValueError", t0)
      ELSE IF ~m.none /\ e \in DOMAIN m.d /\ e.kind = "OperatorSymbol"
      THEN MappingLookup(e, m, t0)
      ELSE After(t0 \o <<RuleEv(e, fs)>>, Dispatch(e, fs, m))

convert_to_qutip(e, fs0, m) ==
  LET fs == IF fs0.kind = "None" THEN Space(space(e)) ELSE fs0
      t0 == <<CallEv(e, fs)>>
  IN  IF ~is_tensor_factor_of(space(e), fs) THEN Fail("ValueError", t0)
      ELSE IF ~m.none /\ e \in DOMAIN m.d THEN MappingLookup(e, m, t0)
      ELSE After(t0 \o <<RuleEv(e, fs)>>, Dispatch(e, fs, m))

\* variant: the stored object is copied before it is returned
ObjectReturned_copy(e, fs0, m) ==
  IF convert_to_qutip(e, fs0, m).status # "ok" THEN "none" ELSE "new"

\* which object a call returns: the one stored in the mapping (return ret),
\* the one the caller's callable returns (return ret(expr)), the one returned
\* by the call on the expanded product (return convert_to_qutip(se, ...)), or
\* a new one built by the rule entered
RECURSIVE ObjectReturned(_, _, _)
ObjectReturned(e, fs0, m) ==
  LET fs == IF fs0.kind = "None" THEN Space(space(e)) ELSE fs0
  IN  IF convert_to_qutip(e, fs0, m).status # "ok" THEN "none"
      ELSE IF ~m.none /\ e \in DOMAIN m.d
      THEN IF m.d[e].isQobj THEN "stored" ELSE "callable"
      ELSE IF /\ e.kind = "OperatorTimes"
              /\ \E i \in 1..Len(e.ops) : Cardinality(space(e.ops[i])) > 1
      THEN ObjectReturned(expand(e), fs, m)
      ELSE "new"

\* the closed-form matrix of a local operator on its own space of dimension n
LocalMatrix(e, n) ==
  IF e.kind \in {"Create", "Jz", "Jplus"} THEN Ok(create(n), <<>>)
  ELSE IF e.kind \in {"Destroy", "Jminus"} THEN Ok(destroy(n), <<>>)
  ELSE IF e.kind = "Phase"
       THEN IF IsSymbolic(e.args) THEN Fail("TypeError", <<>>)
            ELSE Ok(PhaseMatrix(n, e.args[1]), <<>>)
  ELSE IF e.kind = "Displace" THEN Ok(displace(n, e.args[1]), <<>>)
  ELSE IF e.kind = "Squeeze" THEN Ok(displace(n, e.args[1]), <<>>)
  ELSE IF e.kind = "LocalSigma"
       THEN IF e.args[1] \in 0..(n - 1) /\ e.args[2] \in 0..(n - 1)
            THEN Ok(QMul(basis(n, e.args[1]), QDag(basis(n, e.args[2]))), <<>>)
            ELSE Fail("ValueError", <<>>)
  ELSE Fail("ValueError", <<>>)

\* variant: the operator's matrix is put first, whatever its position
_convert_local_operator_to_qutip_first(e, fs, m) ==
  LET n == dimension(fs.factors)
  IN  IF fs.factors # space(e)
      THEN LET others == local_factors(fs.factors \ space(e))
               r == convert_to_qutip(e, Space(space(e)), m)
           IN  IF r.status # "ok" THEN r
               ELSE Ok(tensor(<<r.q>> \o QeyeList(others)), r.trace)
      ELSE LocalMatrix(e, n)

\* variant: the operator is converted on its own space and not embedded
_convert_local_operator_to_qutip_own_space(e, fs, m) ==
  LocalMatrix(e, dimension(space(e)))

_convert_local_operator_to_qutip(e, fs, m) ==
  LET n == dimension(fs.factors)
  IN  IF fs.factors # space(e)
      THEN LET all_spaces == local_factors(fs.factors)
               own_space_index == IndexOf(all_spaces, CHOOSE s \in space(e) : TRUE)
               r == convert_to_qutip(e, Space(space(e)), m)
           IN  IF r.status # "ok" THEN r
               ELSE Ok(tensor(QeyeList(SubSeq(all_spaces, 1, own_space_index - 1))
                              \o <<r.q>>
                              \o QeyeList(SubSeq(all_spaces, own_space_index + 1,
                                                 Len(all_spaces)))),
                       r.trace)
      ELSE LocalMatrix(e, n)

\* sum((convert_to_qutip(op, full_space, mapping) for op in operands), 0)
SumOperands(ops, i, acc, fs, m, tr) ==
  IF i > Len(ops) THEN Ok(acc, tr)
  ELSE LET r == convert_to_qutip(ops[i], fs, m)
       IN  IF r.status # "ok" THEN After(tr, r)
           ELSE IF i = 1 THEN SumOperands(ops, 2, r.q, fs, m, tr \o r.trace)
           ELSE IF CanAdd(acc, r.q)
                THEN SumOperands(ops, i + 1, QAdd(acc, r.q), fs, m, tr \o r.trace)
                ELSE Fail("TypeError", tr \o r.trace)

\* [convert_to_qutip(o, o.space, mapping) for o in os]: q is the list
ConvertList(os, i, m) ==
  IF i > Len(os) THEN [status |-> "ok", q |-> <<>>, trace |-> <<>>]
  ELSE LET r == convert_to_qutip(os[i], Space(space(os[i])), m)
       IN  IF r.status # "ok" THEN r
           ELSE LET rest == ConvertList(os, i + 1, m)
                IN  IF rest.status # "ok" THEN After(r.trace, rest)
                    ELSE [status |-> "ok", q |-> <<r.q>> \o rest.q,
                          trace |-> r.trace \o rest.trace]

\* variant: the operands on ls in reverse operand order
OperandsOn_reversed(ops, ls) ==
  LET os == SelectSeq(ops, LAMBDA o : space(o) = {ls})
  IN  [i \in 1..Len(os) |-> os[Len(os) + 1 - i]]

\* the operands o of expr with o.space == ls, in operand order
OperandsOn(ops, ls) == SelectSeq(ops, LAMBDA o : space(o) = {ls})

\* the loop over all_spaces: by_space and ck so far, all_spaces[i] next
GroupBySpace(e, all_spaces, i, by_space, ck, m) ==
  IF i > Len(all_spaces)
  THEN IF ck # Len(e.ops) THEN Fail("AssertionError", <<>>)
       ELSE Ok(tensor(by_space), <<>>)
  ELSE LET ls     == all_spaces[i]
           ls_ops == ConvertList(OperandsOn(e.ops, ls), 1, m)
       IN  IF ls_ops.status # "ok" THEN Fail(ls_ops.status, ls_ops.trace)
           ELSE IF Len(ls_ops.q) > 0
           THEN LET p == prod(NoQobj, ls_ops.q, 1)
                IN  IF p.status # "ok" THEN Fail(p.status, ls_ops.trace)
                    ELSE After(ls_ops.trace,
                               GroupBySpace(e, all_spaces, i + 1, by_space \o <<p.q>>,
                                            ck + Len(ls_ops.q), m))
           ELSE After(ls_ops.trace,
                      GroupBySpace(e, all_spaces, i + 1,
                                   by_space \o <<qeye(LocalDim(ls))>>, ck, m))

\* variant: a product with a nonlocal operand is never expanded
ConvertTimes_no_retry(e, fs, m) ==
  IF \E i \in 1..Len(e.ops) : Cardinality(space(e.ops[i])) > 1
  THEN Fail("ValueError", <<>>)
  ELSE GroupBySpace(e, local_factors(fs.factors), 1, <<>>, 0, m)

\* elif isinstance(expr, OperatorTimes)
ConvertTimes(e, fs, m) ==
  IF \E i \in 1..Len(e.ops) : Cardinality(space(e.ops[i])) > 1
  THEN LET se == expand(e)
       IN  IF se = e THEN Fail("ValueError", <<>>)
           ELSE convert_to_qutip(se, fs, m)
  ELSE GroupBySpace(e, local_factors(fs.factors), 1, <<>>, 0, m)

\* elif isinstance(expr, Adjoint): qutip.dag is handed the symbolic operand,
\* which is no Qobj, and raises TypeError before anything is converted
ConvertAdjoint(e, fs, m) == Fail("TypeError", <<>>)

\* variant: the boundary dimension is refused
ConvertPseudoInverse_below_limit(e, fs, m) ==
  LET mo == convert_to_qutip(e.ops[1], fs, m)
  IN  IF mo.status # "ok" THEN mo
      ELSE IF dimension(fs.factors) < dense_limit
      THEN Ok([dims |-> mo.q.dims, data |-> pinv(mo.q.data),
               isherm |-> mo.q.isherm, type |-> "oper"], mo.trace)
      ELSE Fail("NotImplementedError", mo.trace)

\* elif isinstance(expr, PseudoInverse)
ConvertPseudoInverse(e, fs, m) ==
  LET mo == convert_to_qutip(e.ops[1], fs, m)
  IN  IF mo.status # "ok" THEN mo
      ELSE IF dimension(fs.factors) <= dense_limit
      THEN Ok([dims |-> mo.q.dims, data |-> pinv(mo.q.data),
               isherm |-> mo.q.isherm, type |-> "oper"], mo.trace)
      ELSE Fail("NotImplementedError", mo.trace)

\* elif isinstance(expr, NullSpaceProjector)
ConvertNullSpaceProjector(e, fs, m) ==
  LET mo == convert_to_qutip(e.ops[1], fs, m)
  IN  IF mo.status # "ok" THEN mo
      ELSE IF dimension(fs.factors) <= dense_limit
      THEN Ok([dims |-> mo.q.dims, data |-> NullProjector(mo.q.data),
               isherm |-> TRUE, type |-> "oper"], mo.trace)
      ELSE Fail("NotImplementedError", mo.trace)

_convert_operator_operation_to_qutip(e, fs, m) ==
  IF e.kind = "OperatorPlus" THEN SumOperands(e.ops, 1, NoQobj, fs, m, <<>>)
  ELSE IF e.kind = "OperatorTimes" THEN ConvertTimes(e, fs, m)
  ELSE IF e.kind = "Adjoint" THEN ConvertAdjoint(e, fs, m)
  ELSE IF e.kind = "PseudoInverse" THEN ConvertPseudoInverse(e, fs, m)
  ELSE IF e.kind = "NullSpaceProjector" THEN ConvertNullSpaceProjector(e, fs, m)
  ELSE Fail("ValueError", <<>>)

\* qutip.coherent(n, alpha), for alpha = 0: the vacuum
coherent(n, alpha) == CHOOSE q \in {basis(n, 0)} : alpha = 0

\* tensor(*[convert_to_qutip(o, n, mapping) for o in expr.operands]) and the
\* other lists of kets converted against n
RECURSIVE ConvertListIn(_, _, _, _)
ConvertListIn(os, i, fs, m) ==
  IF i > Len(os) THEN [status |-> "ok", q |-> <<>>, trace |-> <<>>]
  ELSE LET r == convert_to_qutip(os[i], fs, m)
       IN  IF r.status # "ok" THEN r
           ELSE LET rest == ConvertListIn(os, i + 1, fs, m)
                IN  IF rest.status # "ok" THEN After(r.trace, rest)
                    ELSE [status |-> "ok", q |-> <<r.q>> \o rest.q,
                          trace |-> r.trace \o rest.trace]

\* elif isinstance(expr, TensorKet)
ConvertTensorKet(e, n, m) ==
  IF \E i \in 1..Len(e.ops) : Cardinality(space(e.ops[i])) > 1
  THEN LET se == expand(e)
       IN  IF se = e THEN Fail("ValueError", <<>>)
           ELSE convert_to_qutip(se, IntArg(n), m)
  ELSE LET qs == ConvertListIn(e.ops, 1, IntArg(n), m)
       IN  IF qs.status # "ok" THEN Fail(qs.status, qs.trace)
           ELSE Ok(tensor(qs.q), qs.trace)

\* elif isinstance(expr, OperatorTimesKet)
ConvertOperatorTimesKet(e, n, m) ==
  LET qs == ConvertListIn(e.ops, 1, IntArg(n), m)
  IN  IF qs.status # "ok" THEN Fail(qs.status, qs.trace)
      ELSE IF CanMul(qs.q[1], qs.q[2]) THEN Ok(QMul(qs.q[1], qs.q[2]), qs.trace)
      ELSE Fail("TypeError", qs.trace)

\* every recursive call is handed n = full_space.dimension as its full_space
_convert_ket_to_qutip(e, fs, m) ==
  LET n == dimension(fs.factors)
  IN  IF fs.factors # space(e)
      THEN \* list + Qobj + list: the operand is converted, then the
           \* concatenation of a list and a Qobj raises TypeError
           LET r == convert_to_qutip(e, Space(space(e)), m)
           IN  IF r.status # "ok" THEN r ELSE Fail("TypeError", r.trace)
      ELSE IF e.kind = "BasisKet"
      THEN IF e.args[1] \in 0..(n - 1) THEN Ok(basis(n, e.args[1]), <<>>)
           ELSE Fail("ValueError", <<>>)
      ELSE IF e.kind = "CoherentStateKet" THEN Ok(coherent(n, e.args[1]), <<>>)
      ELSE IF e.kind = "KetPlus" THEN SumOperands(e.ops, 1, NoQobj, IntArg(n), m, <<>>)
      ELSE IF e.kind = "TensorKet" THEN ConvertTensorKet(e, n, m)
      ELSE IF e.kind = "ScalarTimesKet" THEN ConvertScalarTimes(e, IntArg(n), m)
      ELSE IF e.kind = "OperatorTimesKet" THEN ConvertOperatorTimesKet(e, n, m)
      ELSE Fail("ValueError", <<>>)

(***************************************************************************)
(* _time_dependent_to_qutip.  The value returned is a Qobj (form "qobj"),  *)
(* a pair [Qobj, coeff] (form "pair") or a list of such values (form       *)
(* "list").                                                                *)
(***************************************************************************)
NoCoeff == [as |-> "none", text |-> <<>>, ignores_args |-> FALSE]

TDStatic(q) == [form |-> "qobj", q |-> q, coeff |-> NoCoeff, items |-> <<>>]

TDPair(q, c) == [form |-> "pair", q |-> q, coeff |-> c, items |-> <<>>]

TDList(items) == [form |-> "list", q |-> NoQobj, coeff |-> NoCoeff, items |-> items]

NoTD == [form |-> "none", q |-> NoQobj, coeff |-> NoCoeff, items |-> <<>>]

TDOk(v, tr) == [status |-> "ok", value |-> v, trace |-> tr]

TDFail(err, tr) == [status |-> err, value |-> NoTD, trace |-> tr]

\* str(op.coeff)
CoeffText(args) ==
  IF IsSymbolic(args) THEN args[1]
  ELSE IF args[2] = 0 THEN <<ToString(args[1])>>
  ELSE <<ToString(args[1]), "+", ToString(args[2]), "*", "I">>

\* op.coeff.free_symbols
free_symbols(args) == IF IsSymbolic(args) THEN args[2] ELSE {}

\* re.sub("I", "(1.0j)", text): every character I is replaced
RECURSIVE ReSubI(_)
ReSubI(text) ==
  IF Len(text) = 0 THEN <<>>
  ELSE (IF Head(text) = "I" THEN <<"(", "1", ".", "0", "j", ")">> ELSE <<Head(text)>>)
       \o ReSubI(Tail(text))

\* coeff = func (a callable of (t, args)) or the rewritten string
PyfuncCoeff(args, t) ==
  [as |-> "pyfunc", text |-> CoeffText(args), ignores_args |-> ({t} = free_symbols(args))]

StrCoeff(args) == [as |-> "str", text |-> ReSubI(CoeffText(args)), ignores_args |-> FALSE]

RECURSIVE _time_dependent_to_qutip(_, _, _, _)

\* variant: every static term replaces result[0]
AddStatic_replace(acc, r) ==
  IF r.status # "ok" THEN TDFail(r.status, acc.trace \o r.trace)
  ELSE TDOk(TDList(<<TDStatic(r.q)>>), acc.trace \o r.trace)

\* result.append(convert_to_qutip(o, ...)) for the first static term,
\* result[0] += convert_to_qutip(o, ...) for the following ones
AddStatic(acc, r) ==
  IF r.status # "ok" THEN TDFail(r.status, acc.trace \o r.trace)
  ELSE IF Len(acc.value.items) = 0
  THEN TDOk(TDList(<<TDStatic(r.q)>>), acc.trace \o r.trace)
  ELSE IF CanAdd(acc.value.items[1].q, r.q)
  THEN TDOk(TDList(<<TDStatic(QAdd(acc.value.items[1].q, r.q))>>), acc.trace \o r.trace)
  ELSE TDFail("TypeError", acc.trace \o r.trace)

\* the first loop over op.operands: the static terms are converted and summed
\* into result[0]; an error ends the call
RECURSIVE StaticTerms(_, _, _, _, _)
StaticTerms(ops, i, fs, t, acc) ==
  IF i > Len(ops) \/ acc.status # "ok" THEN acc
  ELSE IF t \in all_symbols(ops[i]) THEN StaticTerms(ops, i + 1, fs, t, acc)
  ELSE StaticTerms(ops, i + 1, fs, t,
                   AddStatic(acc, convert_to_qutip(ops[i], fs, NoMapping)))

\* result.append(_time_dependent_to_qutip(o, ...))
AppendTerm(acc, r) ==
  IF r.status # "ok" THEN TDFail(r.status, acc.trace \o r.trace)
  ELSE TDOk(TDList(Append(acc.value.items, r.value)), acc.trace \o r.trace)

\* the second loop: every term with the time symbol is decomposed and appended
RECURSIVE TimeDependentTerms(_, _, _, _, _, _)
TimeDependentTerms(ops, i, fs, t, as0, acc) ==
  IF i > Len(ops) \/ acc.status # "ok" THEN acc
  ELSE IF t \notin all_symbols(ops[i])
  THEN TimeDependentTerms(ops, i + 1, fs, t, as0, acc)
  ELSE TimeDependentTerms(ops, i + 1, fs, t, as0,
                          AppendTerm(acc, _time_dependent_to_qutip(ops[i], fs, t, as0)))

\* return [convert_to_qutip(op.term, full_space), coeff]
PairOf(r, coeff) ==
  IF r.status # "ok" THEN TDFail(r.status, r.trace)
  ELSE TDOk(TDPair(r.q, coeff), r.trace)

\* variant: the operator part of the term is not converted
TimeDependentScalarTimes_unconverted(op, fs, t, as0) ==
  IF as0 \notin {"pyfunc", "str"} THEN TDFail("ValueError", <<>>)
  ELSE TDOk(TDPair(NoQobj,
                   IF as0 = "pyfunc" THEN PyfuncCoeff(op.args, t) ELSE StrCoeff(op.args)),
            <<>>)

\* elif isinstance(op, ScalarTimesOperator): convert_as is looked at first
TimeDependentScalarTimes(op, fs, t, as0) ==
  IF as0 \notin {"pyfunc", "str"} THEN TDFail("ValueError", <<>>)
  ELSE PairOf(convert_to_qutip(op.ops[1], fs, NoMapping),
              IF as0 = "pyfunc" THEN PyfuncCoeff(op.args, t) ELSE StrCoeff(op.args))

\* return convert_to_qutip(op, full_space=full_space)
StaticOf(r) ==
  IF r.status # "ok" THEN TDFail(r.status, r.trace)
  ELSE TDOk(TDStatic(r.q), r.trace)

_time_dependent_to_qutip(op0, fs0, t, as0) ==
  LET fs == IF fs0.kind = "None" THEN Space(space(op0)) ELSE fs0
  IN  IF op0.kind = "Scalar" THEN TDFail("AttributeError", <<>>)
      ELSE IF t \in all_symbols(op0)
      THEN LET op == expand(op0)
           IN  IF op.kind = "OperatorPlus"
               THEN TimeDependentTerms(op.ops, 1, fs, t, as0,
                      StaticTerms(op.ops, 1, fs, t, TDOk(TDList(<<>>), <<>>)))
               ELSE IF op.kind = "ScalarTimesOperator"
               THEN TimeDependentScalarTimes(op, fs, t, as0)
               ELSE TDFail("ValueError", <<>>)
      ELSE StaticOf(convert_to_qutip(op0, fs, NoMapping))

(***************************************************************************)
(* SLH_to_qutip.  An SLH triple is a record of L, the flattened entries of *)
(* its L matrix, and H; S is not read by the conversion.                   *)
(***************************************************************************)
SLH(L, H) == [L |-> L, H |-> H]

\* slh.space: the product of the spaces of H and of the entries of L
SLHSpace(t) == space(t.H) \cup SpaceUnion(t.L, 1)

\* if full_space: a space is true when it has a local factor
Truthy(fs) == fs.kind = "space" /\ fs.factors # {}

\* variant: the entries that are not zero
OperatorEntries_nonzero(L) ==
  SelectSeq(L, LAMBDA x : x # ZeroOperator /\ x # Scalar(0, 0))

\* [convert_to_qutip(L, full_space) for L in slh.L.matrix.flatten()
\*  if isinstance(L, Operator)]
OperatorEntries(L) == SelectSeq(L, IsOperator)

\* time_symbol=None
NoTime == "None"

\* Ls.append(_time_dependent_to_qutip(L, ...))
AppendEntry(acc, r) ==
  IF r.status # "ok" THEN [status |-> r.status, q |-> <<>>, trace |-> acc.trace \o r.trace]
  ELSE [status |-> "ok", q |-> Append(acc.q, r.value), trace |-> acc.trace \o r.trace]

\* the loop over all entries of L; an error ends the call
RECURSIVE TimeDependentList(_, _, _, _, _, _)
TimeDependentList(L, i, fs, ts, as0, acc) ==
  IF i > Len(L) \/ acc.status # "ok" THEN acc
  ELSE TimeDependentList(L, i + 1, fs, ts, as0,
                         AppendEntry(acc, _time_dependent_to_qutip(L[i], fs, ts, as0)))

\* H of the time path, as an outcome
TimeDependentH(r) == [status |-> r.status, q |-> r.value, trace |-> r.trace]

\* return H, Ls
SLHReturn(H, Ls) ==
  IF H.status # "ok"
  THEN [status |-> H.status, H |-> NoQobj, Ls |-> <<>>, trace |-> H.trace]
  ELSE IF Ls.status # "ok"
  THEN [status |-> Ls.status, H |-> NoQobj, Ls |-> <<>>, trace |-> H.trace \o Ls.trace]
  ELSE [status |-> "ok", H |-> H.q, Ls |-> Ls.q, trace |-> H.trace \o Ls.trace]

\* H and Ls are Qobj when time_symbol is None, values of
\* _time_dependent_to_qutip otherwise
SLH_to_qutip(t, fs0, ts, as0) ==
  IF Truthy(fs0) /\ ~(SLHSpace(t) \subseteq fs0.factors)
  THEN [status |-> "AlgebraError", H |-> NoQobj, Ls |-> <<>>, trace |-> <<>>]
  ELSE LET fs == IF Truthy(fs0) THEN fs0 ELSE Space(SLHSpace(t))
       IN  IF ts = NoTime
           THEN SLHReturn(convert_to_qutip(t.H, fs, NoMapping),
                          ConvertListIn(OperatorEntries(t.L), 1, fs, NoMapping))
           ELSE SLHReturn(TimeDependentH(_time_dependent_to_qutip(t.H, fs, ts, as0)),
                          TimeDependentList(t.L, 1, fs, ts, as0,
                                            [status |-> "ok", q |-> <<>>, trace |-> <<>>]))

(***************************************************************************)
(* The reducible circuit components.  A component is a record of its class *)
(* and its name; a sub-component is a record of its class, its parent and  *)
(* its sub_index.  Scalars are kept as written, as lists of characters.    *)
(***************************************************************************)
\* the class attribute CDIM of the three reducible components
CDIM == 2

Component(cls, name) == [cls |-> cls, name |-> name]

SubComponent(cls, parent, sub_index) ==
  [cls |-> cls, parent |-> parent, sub_index |-> sub_index]

\* LocalSpace(prefix + name)
LocalSpaceOf(prefix, name) == <<prefix, name>>

\* Matrix([[...]]), as its rows
Matrix(rows) == rows

identity_matrix(n) == [i \in 1..n |-> [j \in 1..n |-> IF i = j THEN 1 ELSE 0]]

\* SLH(S, L, H) of a sub-component
SLHTriple(S, L, H) == [S |-> S, L |-> L, H |-> H]

\* coeff * term with a symbolic coeff
Times(text, syms, term) == SymbolicTimesOperator(text, syms, term)

Sqrt(name) == <<"sqrt", "(", name, ")">>

\* DoubleSidedOPO._creduce
DoubleSidedOPO_creduce(self) ==
  <<SubComponent("OPOPort", self, 0), SubComponent("OPOPort", self, 1)>>

\* OPOPort._toSLH
OPOPort_toSLH(self) ==
  LET hs  == LocalSpaceOf("", self.parent.name)
      a   == Destroy(hs)
      a_d == Create(hs)
      S   == identity_matrix(1)
  IN  IF self.sub_index = 0
      THEN SLHTriple(S,
                     Matrix(<<<<Times(Sqrt("kappa_1"), {"kappa_1"}, a)>>>>),
                     OperatorPlus(<<
                       Times(<<"Delta">>, {"Delta"}, OperatorTimes(<<a_d, a>>)),
                       Times(<<"I", "/", "2">>, {},
                             OperatorPlus(<<
                               Times(<<"alpha">>, {"alpha"}, OperatorTimes(<<a_d, a_d>>)),
                               Times(<<"-", "conjugate", "(", "alpha", ")">>, {"alpha"},
                                     OperatorTimes(<<a, a>>))>>))>>))
      ELSE SLHTriple(S, Matrix(<<<<Times(Sqrt("kappa_2"), {"kappa_2"}, a)>>>>),
                     Scalar(0, 0))

\* KerrCavity._creduce: self.port1 + self.port2
KerrCavity_creduce(self) ==
  <<SubComponent("KerrPort", self, 0), SubComponent("KerrPort", self, 1)>>

\* KerrPort._toSLH
KerrPort_toSLH(self) ==
  LET hs  == LocalSpaceOf("", self.parent.name)
      a   == Destroy(hs)
      a_d == Create(hs)
      S   == identity_matrix(1)
  IN  IF self.sub_index = 0
      THEN SLHTriple(S,
                     Matrix(<<<<Times(Sqrt("kappa_1"), {"kappa_1"}, a)>>>>),
                     OperatorPlus(<<
                       Times(<<"Delta">>, {"Delta"}, OperatorTimes(<<a_d, a>>)),
                       Times(<<"chi">>, {"chi"}, OperatorTimes(<<a_d, a_d, a, a>>))>>))
      ELSE SLHTriple(S, Matrix(<<<<Times(Sqrt("kappa_2"), {"kappa_2"}, a)>>>>),
                     Scalar(0, 0))

\* SingleSidedJaynesCummings._creduce: CavityPort(self) + DecayChannel(self),
\* whose constructors give the sub_index 0 and 1
SingleSidedJaynesCummings_creduce(self) ==
  <<SubComponent("CavityPort", self, 0), SubComponent("DecayChannel", self, 1)>>

\* CavityPort._toSLH
CavityPort_toSLH(self) ==
  LET tls_space  == LocalSpaceOf("a.", self.parent.name)
      fock_space == LocalSpaceOf("f.", self.parent.name)
      sigma_p == LocalSigma(tls_space, "h", "g")
      sigma_m == LocalSigma(tls_space, "g", "h")
      a   == Destroy(fock_space)
      a_d == Create(fock_space)
      L   == Times(Sqrt("kappa"), {"kappa"}, a)
      H   == OperatorPlus(<<
               Times(<<"Delta_f">>, {"Delta_f"}, OperatorTimes(<<a_d, a>>)),
               Times(<<"Delta_a">>, {"Delta_a"}, OperatorTimes(<<sigma_p, sigma_m>>)),
               Times(<<"I", "*", "g">>, {"g"},
                     OperatorPlus(<<OperatorTimes(<<sigma_p, a>>),
                                    ScalarTimesOperator(-1, 0,
                                      OperatorTimes(<<sigma_m, a_d>>))>>))>>)
  IN  SLHTriple(Matrix(<<<<1>>>>), Matrix(<<<<L>>>>), H)

\* DecayChannel._toSLH
DecayChannel_toSLH(self) ==
  LET tls_space == LocalSpaceOf("a.", self.parent.name)
      sigma_m   == LocalSigma(tls_space, "g", "h")
      L         == Times(Sqrt("gamma"), {"gamma"}, sigma_m)
  IN  SLHTriple(Matrix(<<<<1>>>>), Matrix(<<<<L>>>>), Scalar(0, 0))

\* Component.creduce of the reducible components
creduce(self) ==
  IF self.cls = "DoubleSidedOPO" THEN DoubleSidedOPO_creduce(self)
  ELSE IF self.cls = "KerrCavity" THEN KerrCavity_creduce(self)
  ELSE SingleSidedJaynesCummings_creduce(self)

\* variant: the Hamiltonian is given to both ports
toSLH_first_port(self) ==
  LET first == SubComponent(self.cls, self.parent, 0)
  IN  IF self.cls = "OPOPort" THEN OPOPort_toSLH(first)
      ELSE IF self.cls = "KerrPort" THEN KerrPort_toSLH(first)
      ELSE IF self.cls = "CavityPort" THEN CavityPort_toSLH(first)
      ELSE DecayChannel_toSLH(self)

\* SubComponent.toSLH
toSLH(self) ==
  IF self.cls = "OPOPort" THEN OPOPort_toSLH(self)
  ELSE IF self.cls = "KerrPort" THEN KerrPort_toSLH(self)
  ELSE IF self.cls = "CavityPort" THEN CavityPort_toSLH(self)
  ELSE DecayChannel_toSLH(self)

(***************************************************************************)
(* The printer registry.  A circuit expression is rendered as a list of    *)
(* words; the registry maps (sub-)expressions to names, the cache keeps    *)
(* the words an expression was rendered to.                                *)
(***************************************************************************)
CircuitLeaf(name) == Expr("Component", {}, <<name>>, <<>>)

SeriesProduct(ops) == Expr("SeriesProduct", {}, <<>>, ops)

Concatenation(ops) == Expr("Concatenation", {}, <<>>, ops)

Feedback(op) == Expr("Feedback", {}, <<>>, <<op>>)

NoRegistry == <<>>

\* the word between the operands of an operation
Separator(kind) == IF kind = "SeriesProduct" THEN "<|" ELSE "[+]"

\* the words of an operation around those of its operands
Enclose(e, words) ==
  IF e.kind = "Feedback" THEN <<"[">> \o words \o <<"]_fb">> ELSE words

Rendered(words, c) == [text |-> words, cache |-> c]

\* the words are kept with the expression
Store(e, r) == Rendered(Enclose(e, r.text), (e :> Enclose(e, r.text)) @@ r.cache)

\* the words of an operand are put after those of the operands before it
Joined(acc, i, sep, r) ==
  Rendered(acc.text \o (IF i > 1 THEN <<sep>> ELSE <<>>) \o r.text, r.cache)

RECURSIVE render(_, _, _, _)
RECURSIVE RenderOperands(_, _, _, _, _, _)

\* variant: the cache is read whether or not cached rendering is enabled
render_from_cache(e, reg, c, cached) ==
  IF e \in DOMAIN reg THEN Rendered(<<reg[e]>>, c)
  ELSE IF e \in DOMAIN c THEN Rendered(c[e], c)
  ELSE IF Len(e.ops) = 0 THEN Rendered(<<e.args[1]>>, c)
  ELSE Store(e, RenderOperands(e.ops, 1, reg, cached, Separator(e.kind),
                               Rendered(<<>>, c)))

\* a registered expression is rendered as its name; otherwise the cached
\* words are used when cached rendering is enabled, and else the operation is
\* rendered from its operands
render(e, reg, c, cached) ==
  IF e \in DOMAIN reg THEN Rendered(<<reg[e]>>, c)
  ELSE IF cached /\ e \in DOMAIN c THEN Rendered(c[e], c)
  ELSE IF Len(e.ops) = 0 THEN Rendered(<<e.args[1]>>, c)
  ELSE Store(e, RenderOperands(e.ops, 1, reg, cached, Separator(e.kind),
                               Rendered(<<>>, c)))

RenderOperands(ops, i, reg, cached, sep, acc) ==
  IF i > Len(ops) THEN acc
  ELSE RenderOperands(ops, i + 1, reg, cached, sep,
                      Joined(acc, i, sep, render(ops[i], reg, acc.cache, cached)))

(***************************************************************************)
(* The inputs the calls are made on.                                       *)
(***************************************************************************)
SmallIds == 1..NumLocal

\* a lowering operator on s: Destroy on a two-level space, |0><1| otherwise
Lower(s) == IF LocalDim(s) = 2 THEN Destroy(s) ELSE LocalSigma(s, 0, 1)

Sym(s) == OperatorSymbol(s, {s})

\* a symbol acting on the two first local spaces
SymAB == OperatorSymbol(0, {1, 2})

BaseOps == UNION {{Lower(s), Phase(s, 1), Sym(s)} : s \in SmallIds}

OtherLeaves ==
  {IdentityOperator, ZeroOperator, Create(1), Jz(1), Jplus(1), Jminus(1),
   Displace(1, 0), Squeeze(1, 0), LocalSigma(1, 1, 0), LocalSigma(2, 2, 0),
   LocalSigma(2, 1, 1), LocalSigma(1, 0, 2), SymAB}

Leaves == BaseOps \cup OtherLeaves

Unary(a) ==
  {Adjoint(a), PseudoInverse(a), NullSpaceProjector(a), OperatorTrace({1}, a),
   ScalarTimesOperator(2, 0, a), ScalarTimesOperator(0, 1, a)}

Sums == {OperatorPlus(<<a, b>>) : a \in BaseOps, b \in BaseOps}

Products ==
  {OperatorTimes(<<a, b>>) : a \in BaseOps, b \in BaseOps}
  \cup {OperatorTimes(<<a, b, c>>) :
          a \in {Lower(1), Phase(1, 1)}, b \in BaseOps, c \in {Lower(1), Sym(1)}}

Nested ==
  {OperatorPlus(<<OperatorTrace({1}, SymAB), Lower(2)>>),
   OperatorPlus(<<Lower(2), OperatorTrace({1}, SymAB)>>),
   OperatorPlus(<<Lower(1), Phase(1, 1), Create(1)>>),
   ScalarTimesOperator(2, 0, OperatorTrace({1}, SymAB)),
   ScalarTimesOperator(0, 1, OperatorPlus(<<Lower(1), Lower(2)>>)),
   OperatorTimes(<<OperatorPlus(<<Lower(1), Lower(2)>>), Phase(1, 1)>>),
   OperatorTimes(<<Phase(1, 1), OperatorPlus(<<Lower(1), Lower(2)>>)>>),
   OperatorTimes(<<SymAB, Lower(1)>>),
   OperatorTimes(<<OperatorPlus(<<Lower(1), Create(1)>>), Lower(2)>>),
   OperatorTimes(<<Lower(1), IdentityOperator>>),
   OperatorTimes(<<Lower(1), OperatorTrace({1}, Sym(1))>>),
   OperatorTimes(<<OperatorPlus(<<SymAB, Lower(1)>>), Lower(2)>>),
   OperatorTimes(<<OperatorTrace({1}, SymAB), Lower(1)>>),
   Adjoint(OperatorPlus(<<Lower(1), Lower(2)>>)),
   Adjoint(Adjoint(Sym(1))),
   PseudoInverse(OperatorTimes(<<Lower(1), Lower(2)>>)),
   PseudoInverse(OperatorTrace({1}, SymAB)),
   NullSpaceProjector(OperatorTimes(<<Lower(1), Phase(2, 1)>>)),
   NullSpaceProjector(Adjoint(Sym(1)))}

Kets ==
  {BasisKet(1, 0), BasisKet(1, 1), BasisKet(2, 2), BasisKet(1, 2),
   CoherentStateKet(1, 0), KetSymbol(0, {1}),
   KetPlus(<<BasisKet(1, 0), BasisKet(1, 1)>>),
   KetPlus(<<BasisKet(1, 1), BasisKet(1, 0)>>),
   TensorKet(<<BasisKet(1, 0), BasisKet(2, 1)>>),
   TensorKet(<<KetSymbol(0, {1, 2}), BasisKet(1, 0)>>),
   ScalarTimesKet(2, 0, BasisKet(1, 0)),
   OperatorTimesKet(Lower(1), BasisKet(1, 1)),
   OperatorTimesKet(Sym(1), BasisKet(1, 0))}

Exprs ==
  Leaves \cup UNION {Unary(a) : a \in Leaves} \cup Sums \cup Products \cup Nested
  \cup Kets

FullSpaces == {NoneArg} \cup {Space(S) : S \in SUBSET SmallIds}

\* numeric objects a caller stores in a mapping
SigmaX == Qobj(<<<<CZero, COne>>, <<COne, CZero>>>>)

SigmaY == Qobj(<<<<CZero, <<0, -1>>>>, <<CI, CZero>>>>)

\* an object on the product of the two first local spaces
QobjAB == tensor(<<destroy(LocalDim(1)), QMul(basis(LocalDim(2), 0), QDag(basis(LocalDim(2), 2)))>>)

\* a value that is neither a Qobj nor callable
OtherValue == [isQobj |-> FALSE, callable |-> FALSE, q |-> NoQobj, fn |-> <<>>]

SumAB == OperatorPlus(<<Lower(1), Lower(2)>>)

\* Qobj values; Lower(2) is given an object of another dimension than its space
MappingQ ==
  Mapping((Sym(1) :> QobjValue(SigmaX)) @@ (SymAB :> QobjValue(QobjAB))
          @@ (Lower(2) :> QobjValue(SigmaY))
          @@ (BasisKet(1, 0) :> QobjValue(basis(LocalDim(1), 1))))

\* callables, a mapped trace and a value that is neither
MappingF ==
  Mapping((Sym(1) :> CallableValue(Sym(1) :> SigmaY))
          @@ (SumAB :> CallableValue(SumAB :> QobjAB))
          @@ (OperatorTrace({1}, SymAB) :> QobjValue(qeye(LocalDim(2))))
          @@ (Sym(2) :> OtherValue))

Mappings == {NoMapping, Mapping(<<>>), MappingQ, MappingF}

\* expressions on the large spaces, converted through the mapping only
BigSym(S) == OperatorSymbol(S, S)

BigSpaces == {{500}, {1001}, {1, 500}, {2, 500}}

BigExprs ==
  UNION {{BigSym(S), PseudoInverse(BigSym(S)), NullSpaceProjector(BigSym(S))} :
           S \in BigSpaces}

BigFullSpaces == {NoneArg} \cup {Space(S) : S \in BigSpaces \cup {{1, 2, 500}}}

MappingBig == Mapping([e \in {BigSym(S) : S \in BigSpaces} |-> QobjValue(SigmaX)])

\* (expr, full_space, mapping) of the calls of convert_to_qutip
ConvertInputs ==
  (Exprs \X FullSpaces \X Mappings)
  \cup (BigExprs \X BigFullSpaces \X {NoMapping, MappingBig})

\* the SLH triples converted: L of at most MaxChannels entries
\* symbolic coefficients: I*t, a*t, a and I_0*t (a symbol named I_0)
CoeffIt == <<"I", "*", "t">>

CoeffAt == <<"a", "*", "t">>

CoeffA == <<"a">>

CoeffI0t == <<"I", "_", "0", "*", "t">>

\* terms f(t) * A with A free of t
TimeTerms ==
  {SymbolicTimesOperator(CoeffIt, {"t"}, Lower(1)),
   SymbolicTimesOperator(CoeffAt, {"a", "t"}, Create(1)),
   SymbolicTimesOperator(CoeffI0t, {"I_0", "t"}, Lower(2))}

StaticTerms3 == {Lower(1), Phase(1, 1), Lower(2)}

\* terms with t that are not of the shape f(t) * A, A free of t and convertible
PhaseOfT == SymbolicPhase(1, <<"t">>, {"t"})

OddTerms ==
  {PhaseOfT,
   SymbolicTimesOperator(CoeffIt, {"t"}, PhaseOfT),
   ScalarTimesOperator(2, 0, PhaseOfT),
   SymbolicTimesOperator(CoeffIt, {"t"}, Sym(1)),
   SymbolicTimesOperator(CoeffA, {"a"}, Lower(1))}

\* the operators handed to _time_dependent_to_qutip: single terms, sums of two
\* and three distinct terms in every order, a scalar multiple of a sum
TDOps ==
  LET T == TimeTerms \cup StaticTerms3
  IN  T \cup OddTerms
      \cup {OperatorPlus(p) : p \in {q \in T \X T : q[1] # q[2]}}
      \cup {OperatorPlus(p) :
              p \in {q \in T \X T \X T : Cardinality({q[1], q[2], q[3]}) = 3}}
      \cup {OperatorPlus(<<a, b>>) : a \in T, b \in OddTerms}
      \cup {SymbolicTimesOperator(CoeffIt, {"t"}, OperatorPlus(<<Lower(1), Create(1)>>)),
            OperatorPlus(<<Lower(1), Create(1)>>)}

\* "s" is a symbol that occurs in no operator
TimeSymbols == {"t", "s"}

ConvertAs == {"pyfunc", "str", "bogus"}

LEntries ==
  {Lower(1), ScalarTimesOperator(2, 0, Lower(2)), ZeroOperator, Scalar(0, 0),
   Scalar(2, 0), Sym(1), SymbolicTimesOperator(CoeffIt, {"t"}, Lower(1))}

RECURSIVE SeqsUpTo(_, _)
SeqsUpTo(S, n) ==
  IF n = 0 THEN {<<>>}
  ELSE LET shorter == SeqsUpTo(S, n - 1)
       IN  shorter \cup {Append(q, x) : q \in {r \in shorter : Len(r) = n - 1}, x \in S}

Hamiltonians ==
  {OperatorTimes(<<Create(1), Lower(1)>>), ZeroOperator,
   OperatorPlus(<<Lower(1), Lower(2)>>),
   OperatorPlus(<<Lower(1), SymbolicTimesOperator(CoeffAt, {"a", "t"}, Create(1))>>)}

SLHs == {SLH(L, H) : L \in SeqsUpTo(LEntries, MaxChannels) \ {<<>>}, H \in Hamiltonians}

NoSLH == SLH(<<>>, ZeroOperator)

NoResult == [status |-> "none", q |-> NoQobj, trace |-> <<>>]

\* the components reduced and the sub-components their reduction gives
ComponentNames == {"C1", "C2"}

Components ==
  {Component(cls, name) :
     cls \in {"DoubleSidedOPO", "KerrCavity", "SingleSidedJaynesCummings"},
     name \in ComponentNames}

SubComponents == UNION {{creduce(c)[i] : i \in 1..Len(creduce(c))} : c \in Components}

NoComponent == Component("none", "")

\* the expression rendered: P << FB(...) << P, the operands of the feedback
\* term being components
B11 == CircuitLeaf("Latch.B11")

B3 == CircuitLeaf("Latch.B3")

MainTerm ==
  Feedback(SeriesProduct(<<Concatenation(<<B11, B3>>), CircuitLeaf("Perm(0, 2, 1)")>>))

LatchExpr ==
  SeriesProduct(<<CircuitLeaf("Perm(1, 2, 0)"), MainTerm, CircuitLeaf("Perm(2, 0, 1)")>>)

RenderTargets == {LatchExpr, MainTerm}

\* registry = {B11: 'B11', B3: 'B3'}, handed to update_registry
LatchRegistry == (B11 :> "B11") @@ (B3 :> "B3")

\* the (expression, name) pairs handed to register
RegisterInputs == {<<B11, "B11">>, <<MainTerm, "main_term">>}

\* no component is reduced and nothing is printed
OtherIdle ==
  /\ component = NoComponent
  /\ registry = NoRegistry
  /\ cache = NoRegistry
  /\ cached_rendering = TRUE

\* no conversion is made
ConvertIdle ==
  /\ expr = ZeroOperator
  /\ full_space = NoneArg
  /\ mapping = NoMapping
  /\ slh = NoSLH
  /\ time_symbol = NoTime
  /\ convert_as = "pyfunc"

(***************************************************************************)
(* The state machine: a call is chosen with its arguments, then made.      *)
(***************************************************************************)
InitConvert ==
  /\ call = "convert_to_qutip"
  /\ \E i \in ConvertInputs : /\ expr = i[1]
                              /\ full_space = i[2]
                              /\ mapping = i[3]
  /\ slh = NoSLH
  /\ time_symbol = NoTime
  /\ convert_as = "pyfunc"

InitSLH ==
  /\ call = "SLH_to_qutip"
  /\ slh \in SLHs
  /\ full_space \in FullSpaces
  /\ time_symbol \in {NoTime, "t"}
  /\ convert_as \in ConvertAs
  /\ expr = ZeroOperator
  /\ mapping = NoMapping

InitTimeDependent ==
  /\ call = "_time_dependent_to_qutip"
  /\ expr \in TDOps
  /\ full_space \in FullSpaces
  /\ time_symbol \in TimeSymbols
  /\ convert_as \in ConvertAs
  /\ slh = NoSLH
  /\ mapping = NoMapping

InitCreduce ==
  /\ call = "creduce"
  /\ component \in Components
  /\ registry = NoRegistry
  /\ cache = NoRegistry
  /\ cached_rendering = TRUE
  /\ ConvertIdle

InitToSLH ==
  /\ call = "toSLH"
  /\ component \in SubComponents
  /\ registry = NoRegistry
  /\ cache = NoRegistry
  /\ cached_rendering = TRUE
  /\ ConvertIdle

InitPrinting ==
  /\ call = "printing"
  /\ component = NoComponent
  /\ registry = NoRegistry
  /\ cache = NoRegistry
  /\ cached_rendering = TRUE
  /\ ConvertIdle

Init ==
  /\ pc = "start"
  /\ result = NoResult
  /\ dense_limit = DENSE_DIMENSION_LIMIT
  /\ \/ InitConvert /\ OtherIdle
     \/ InitSLH /\ OtherIdle
     \/ InitTimeDependent /\ OtherIdle
     \/ InitCreduce
     \/ InitToSLH
     \/ InitPrinting

ConvertToQutip ==
  /\ pc = "start"
  /\ call = "convert_to_qutip"
  /\ result' = convert_to_qutip(expr, full_space, mapping)
  /\ pc' = "done"
  /\ UNCHANGED <<call, expr, full_space, mapping, slh, time_symbol, convert_as,
               dense_limit, component, registry, cache, cached_rendering>>

SLHToQutip ==
  /\ pc = "start"
  /\ call = "SLH_to_qutip"
  /\ result' = SLH_to_qutip(slh, full_space, time_symbol, convert_as)
  /\ pc' = "done"
  /\ UNCHANGED <<call, expr, full_space, mapping, slh, time_symbol, convert_as,
               dense_limit, component, registry, cache, cached_rendering>>

TimeDependentToQutip ==
  /\ pc = "start"
  /\ call = "_time_dependent_to_qutip"
  /\ result' = _time_dependent_to_qutip(expr, full_space, time_symbol, convert_as)
  /\ pc' = "done"
  /\ UNCHANGED <<call, expr, full_space, mapping, slh, time_symbol, convert_as,
               dense_limit, component, registry, cache, cached_rendering>>

Creduce ==
  /\ pc = "start"
  /\ call = "creduce"
  /\ result' = creduce(component)
  /\ pc' = "done"
  /\ UNCHANGED <<call, expr, full_space, mapping, slh, time_symbol, convert_as,
               dense_limit, component, registry, cache, cached_rendering>>

ToSLH ==
  /\ pc = "start"
  /\ call = "toSLH"
  /\ result' = toSLH(component)
  /\ pc' = "done"
  /\ UNCHANGED <<call, expr, full_space, mapping, slh, time_symbol, convert_as,
               dense_limit, component, registry, cache, cached_rendering>>

\* Printer.clear_registry()
ClearRegistry ==
  /\ call = "printing"
  /\ registry' = NoRegistry
  /\ pc' = "cleared"
  /\ UNCHANGED <<call, expr, full_space, mapping, slh, time_symbol, convert_as,
               dense_limit, component, result, cache, cached_rendering>>

\* Printer.register(expr, name)
Register ==
  /\ call = "printing"
  /\ \E i \in RegisterInputs : registry' = (i[1] :> i[2]) @@ registry
  /\ pc' = "registered"
  /\ UNCHANGED <<call, expr, full_space, mapping, slh, time_symbol, convert_as,
               dense_limit, component, result, cache, cached_rendering>>

\* Printer.update_registry(registry)
UpdateRegistry ==
  /\ call = "printing"
  /\ registry' = LatchRegistry @@ registry
  /\ pc' = "updated"
  /\ UNCHANGED <<call, expr, full_space, mapping, slh, time_symbol, convert_as,
               dense_limit, component, result, cache, cached_rendering>>

\* configure_printing(cached_rendering=...): entered and left
ConfigurePrinting ==
  /\ call = "printing"
  /\ cached_rendering' = ~cached_rendering
  /\ pc' = "configured"
  /\ UNCHANGED <<call, expr, full_space, mapping, slh, time_symbol, convert_as,
               dense_limit, component, result, registry, cache>>

\* unicode(expr)
Render ==
  /\ call = "printing"
  /\ \E e \in RenderTargets :
       /\ expr' = e
       /\ result' = render(e, registry, cache, cached_rendering)
  /\ cache' = result'.cache
  /\ pc' = "rendered"
  /\ UNCHANGED <<call, full_space, mapping, slh, time_symbol, convert_as,
               dense_limit, component, registry, cached_rendering>>

Next ==
  \/ ConvertToQutip
  \/ SLHToQutip
  \/ TimeDependentToQutip
  \/ Creduce
  \/ ToSLH
  \/ ClearRegistry
  \/ Register
  \/ UpdateRegistry
  \/ ConfigurePrinting
  \/ Render

Spec == Init /\ [][Next]_vars

(***************************************************************************)
(* Properties.                                                             *)
(***************************************************************************)
Converted == pc = "done" /\ call = "convert_to_qutip"

\* the ambient space the call works in
Ambient == IF full_space.kind = "None" THEN Space(space(expr)) ELSE full_space

AmbientDims == DimsOf(local_factors(Ambient.factors))

IsKey(e) == ~mapping.none /\ e \in DOMAIN mapping.d

InAmbient == is_tensor_factor_of(space(expr), Ambient)

\* the events of the result's trace with the given tag
EventsOf(tag) == {i \in 1..Len(result.trace) : result.trace[i].ev = tag}

\* C1: full_space defaults to expr.space, and a call whose expr.space is no
\* tensor factor of full_space raises an error and returns nothing, before
\* the mapping is consulted and before any sub-expression is converted: the
\* call itself is the only event, also when expr is a key of the mapping.
C1_SpaceCheckFirst ==
  Converted =>
    /\ result.trace[1] = CallEv(expr, Ambient)
    /\ full_space.kind = "None" =>
         result = convert_to_qutip(expr, Space(space(expr)), mapping)
    /\ ~InAmbient =>
         /\ result.status = "ValueError"
         /\ result.q = NoQobj
         /\ result.trace = <<CallEv(expr, full_space)>>

C1_Witness ==
  /\ Converted
  /\ ~InAmbient
  /\ IsKey(expr)
  /\ result.status = "ValueError"

\* the dimension list and the total dimension of the object returned are
\* those of the ambient space
HasAmbientDims(q) ==
  /\ q.dims[1] = AmbientDims
  /\ Rows(q.data) = dimension(Ambient.factors)

MappedObject(e) ==
  IF mapping.d[e].isQobj THEN mapping.d[e].q ELSE mapping.d[e].fn[e]

HasObject(e) == mapping.d[e].isQobj \/ mapping.d[e].callable

C4_IdentityAndZero ==
  Converted /\ expr \in {IdentityOperator, ZeroOperator} /\ ~IsKey(expr)
            /\ Ambient.factors # {} =>
    LET n == dimension(Ambient.factors)
    IN  /\ result.status = "ok"
        /\ result.q.dims = <<AmbientDims, AmbientDims>>
        /\ result.q.data = IF expr = IdentityOperator THEN MatEye(n)
                           ELSE MatZeros(n, n)
        /\ result.q = tensor([j \in 1..Len(AmbientDims) |->
                                IF expr = IdentityOperator
                                THEN qeye(AmbientDims[j])
                                ELSE Qobj(MatZeros(AmbientDims[j], AmbientDims[j]))])

C4_Witness ==
  /\ Converted
  /\ expr = IdentityOperator
  /\ result.status = "ok"
  /\ Len(AmbientDims) = 2
  /\ AmbientDims[1] # AmbientDims[2]

\* same matrix and same dimension lists
SameMatrix(p, q) == p.dims = q.dims /\ p.data = q.data

\* C5: for a local leaf operator A on the local space s and a full_space with
\* canonical factors s_1..s_k, s = s_i, convert_to_qutip(A, full_space) is the
\* tensor product over j = 1..k of the identity of dimension dim(s_j) for
\* j # i and of convert_to_qutip(A, s) at position i (and raises what
\* convert_to_qutip(A, s) raises).
C5_LocalEmbedding ==
  Converted /\ IsLocalOperator(expr) /\ mapping.none /\ InAmbient =>
    LET all == local_factors(Ambient.factors)
        s   == CHOOSE x \in space(expr) : TRUE
        own == convert_to_qutip(expr, Space({s}), NoMapping)
    IN  /\ result.status = own.status
        /\ own.status = "ok" =>
             result.q = tensor([j \in 1..Len(all) |->
                                  IF all[j] = s THEN own.q
                                  ELSE qeye(LocalDim(all[j]))])

C5_Witness ==
  /\ Converted
  /\ IsLocalOperator(expr)
  /\ mapping.none
  /\ result.status = "ok"
  /\ Len(AmbientDims) = 2
  /\ space(expr) = {local_factors(Ambient.factors)[2]}
  /\ ~IsZeroMat(result.q.data)

\* the product, in operand order, of the conversions of the operands i.. of
\* ops that act on the local space ls: some is FALSE when there is none
RECURSIVE OrderedProduct(_, _, _)
OrderedProduct(ops, ls, i) ==
  IF i > Len(ops) THEN [ok |-> TRUE, some |-> FALSE, q |-> NoQobj]
  ELSE LET rest == OrderedProduct(ops, ls, i + 1)
           c    == convert_to_qutip(ops[i], Space({ls}), mapping)
           bad  == [ok |-> FALSE, some |-> TRUE, q |-> NoQobj]
       IN  IF space(ops[i]) # {ls} THEN rest
           ELSE IF c.status # "ok" \/ ~rest.ok THEN bad
           ELSE IF ~rest.some THEN [ok |-> TRUE, some |-> TRUE, q |-> c.q]
           ELSE IF CanMul(c.q, rest.q)
                THEN [ok |-> TRUE, some |-> TRUE, q |-> QMul(c.q, rest.q)]
                ELSE bad

\* the operands grouped by local space, each group in operand order
RECURSIVE GroupedOperands(_, _, _)
GroupedOperands(ops, all, j) ==
  IF j > Len(all) THEN <<>>
  ELSE SelectSeq(ops, LAMBDA o : space(o) = {all[j]})
       \o GroupedOperands(ops, all, j + 1)

\* C6: an OperatorTimes whose operands each act on one local space of
\* full_space converts to the tensor product, over the local factors of
\* full_space in canonical order, of the matrix product in operand order of
\* the conversions of the operands on that factor, the identity when there is
\* none; so the result is that of the product with its operands grouped by
\* space, the same for every interleaving of operands on different spaces.
C6_ProductBySpace ==
  Converted /\ expr.kind = "OperatorTimes" /\ ~IsKey(expr) /\ InAmbient
            /\ (\A i \in 1..Len(expr.ops) : Cardinality(space(expr.ops[i])) = 1) =>
    LET all == local_factors(Ambient.factors)
        f   == [j \in 1..Len(all) |-> OrderedProduct(expr.ops, all[j], 1)]
        T   == tensor([j \in 1..Len(all) |->
                         IF f[j].some THEN f[j].q ELSE qeye(LocalDim(all[j]))])
        g   == convert_to_qutip(OperatorTimes(GroupedOperands(expr.ops, all, 1)),
                                full_space, mapping)
    IN  /\ (result.status = "ok") <=> (\A j \in 1..Len(all) : f[j].ok)
        /\ result.status = "ok" => SameMatrix(result.q, T)
        /\ g.status = result.status
        /\ g.q = result.q

C6_Witness ==
  /\ Converted
  /\ expr.kind = "OperatorTimes"
  /\ ~IsKey(expr)
  /\ Len(expr.ops) = 3
  /\ space(expr.ops[1]) = {1}
  /\ space(expr.ops[2]) = {2}
  /\ space(expr.ops[3]) = {1}
  /\ expr.ops[1] # expr.ops[3]
  /\ Len(AmbientDims) = 2
  /\ result.status = "ok"
  /\ ~IsZeroMat(result.q.data)

\* C7 as stated: an Adjoint expression converts its operand against the same
\* full_space and mapping and returns the conjugate transpose of that numeric
\* result (and raises when the operand's conversion raises).
C7_AdjointOfConverted ==
  Converted /\ expr.kind = "Adjoint" /\ ~IsKey(expr) /\ InAmbient =>
    LET a == convert_to_qutip(expr.ops[1], Ambient, mapping)
    IN  IF a.status = "ok"
        THEN result.status = "ok" /\ result.q = QDag(a.q)
        ELSE result.status # "ok"

DenseKinds == {"PseudoInverse", "NullSpaceProjector"}

AmbientDimension == dimension(Ambient.factors)

\* C8 as stated: a PseudoInverse or NullSpaceProjector expression converts to
\* a result only when full_space.dimension <= DENSE_DIMENSION_LIMIT; when the
\* dimension exceeds the limit the call raises NotImplementedError and returns
\* nothing; the limit is never modified.  (Stated of the calls that reach the
\* rule: the expression passes the space check and is no key of the mapping.)
C8_LimitErrorAlways ==
  Converted /\ expr.kind \in DenseKinds /\ ~IsKey(expr) /\ InAmbient =>
    /\ result.status = "ok" => AmbientDimension <= DENSE_DIMENSION_LIMIT
    /\ AmbientDimension > DENSE_DIMENSION_LIMIT =>
         result.status = "NotImplementedError" /\ result.q = NoQobj
    /\ dense_limit = DENSE_DIMENSION_LIMIT

\* C8: a PseudoInverse or NullSpaceProjector expression (no key of the
\* mapping) converts to a result only when full_space.dimension <=
\* DENSE_DIMENSION_LIMIT, the boundary included.  The operand is converted
\* first: when the space check passes and the operand converts, the call
\* returns a result if the dimension is within the limit and raises
\* NotImplementedError, returning nothing, if it exceeds it; otherwise the
\* error of the space check or of the operand is raised.  The limit is never
\* modified.
C8_DenseDimensionLimit ==
  /\ dense_limit = DENSE_DIMENSION_LIMIT
  /\ Converted /\ expr.kind \in DenseKinds /\ ~IsKey(expr) =>
       LET mo == convert_to_qutip(expr.ops[1], Ambient, mapping)
       IN  /\ result.status = "ok" => AmbientDimension <= DENSE_DIMENSION_LIMIT
           /\ AmbientDimension > DENSE_DIMENSION_LIMIT =>
                result.status # "ok" /\ result.q = NoQobj
           /\ ~InAmbient => result.status = "ValueError"
           /\ InAmbient /\ mo.status # "ok" => result.status = mo.status
           /\ InAmbient /\ mo.status = "ok" =>
                IF AmbientDimension <= DENSE_DIMENSION_LIMIT
                THEN result.status = "ok" /\ result.q.dims = mo.q.dims
                ELSE result.status = "NotImplementedError"

C8_Witness ==
  /\ Converted
  /\ expr.kind = "PseudoInverse"
  /\ AmbientDimension = DENSE_DIMENSION_LIMIT
  /\ result.status = "ok"

\* C9: a call of convert_to_qutip on an OperatorTrace that is no key of the
\* mapping raises an error and returns nothing (NotImplementedError, from the
\* trace's own rule, whenever its space check passes), and so does the
\* conversion it is part of: a sum or a scalar multiple (itself no key) with
\* such a trace as summand or term does not convert.
C9_TraceNotConverted ==
  Converted =>
    /\ \A i \in EventsOf("call") :
         LET c == result.trace[i]
         IN  c.expr.kind = "OperatorTrace" /\ ~IsKey(c.expr) =>
               /\ result.status # "ok"
               /\ result.q = NoQobj
               /\ is_tensor_factor_of(space(c.expr), c.fs) =>
                    /\ result.status = "NotImplementedError"
                    /\ result.trace[Len(result.trace)] = RuleEv(c.expr, c.fs)
    /\ /\ expr.kind \in {"OperatorTrace", "OperatorPlus", "ScalarTimesOperator"}
       /\ ~IsKey(expr)
       /\ \/ expr.kind = "OperatorTrace"
          \/ \E k \in 1..Len(expr.ops) :
               expr.ops[k].kind = "OperatorTrace" /\ ~IsKey(expr.ops[k])
       => result.status # "ok" /\ result.q = NoQobj

C9_Witness ==
  /\ Converted
  /\ expr.kind = "OperatorPlus"
  /\ ~IsKey(expr)
  /\ ~mapping.none
  /\ expr.ops[2].kind = "OperatorTrace"
  /\ ~IsKey(expr.ops[2])
  /\ InAmbient
  /\ result.status = "NotImplementedError"

ConvertedSLH == pc = "done" /\ call = "SLH_to_qutip"

\* the space SLH_to_qutip converts against
AmbientSLH ==
  IF full_space.kind = "space" /\ full_space.factors # {} THEN full_space
  ELSE Space(SLHSpace(slh))

IsNonzeroEntry(x) == x # ZeroOperator /\ x # Scalar(0, 0)

\* (H, Ls) are the conversions of slh.H and of the entries es
ReturnsConversionsOf(es) ==
  /\ result.H = convert_to_qutip(slh.H, AmbientSLH, NoMapping).q
  /\ Len(result.Ls) = Len(es)
  /\ \A k \in 1..Len(es) :
       IsOperator(es[k]) =>
         k <= Len(result.Ls)
         /\ result.Ls[k] = convert_to_qutip(es[k], AmbientSLH, NoMapping).q

\* C10 as stated: with no time symbol SLH_to_qutip returns (H, Ls), H the
\* conversion of slh.H against the ambient space and Ls one converted matrix
\* per nonzero entry of slh.L, none for a zero entry, in flattened order.
C10_OnePerNonzeroEntry ==
  ConvertedSLH /\ time_symbol = NoTime /\ result.status = "ok" =>
    ReturnsConversionsOf(SelectSeq(slh.L, IsNonzeroEntry))

\* C10: with no time symbol SLH_to_qutip returns (H, Ls), H the conversion of
\* slh.H against the ambient space and Ls one converted matrix per entry of
\* slh.L that is an Operator, ZeroOperator included (the zero matrix), none
\* for an entry that is a plain number, zero or not, in flattened order.
C10_OnePerOperatorEntry ==
  ConvertedSLH /\ time_symbol = NoTime /\ result.status = "ok" =>
    ReturnsConversionsOf(SelectSeq(slh.L, IsOperator))

C10_Witness ==
  /\ ConvertedSLH
  /\ time_symbol = NoTime
  /\ result.status = "ok"
  /\ Len(slh.L) = 2
  /\ slh.L[1] = ZeroOperator
  /\ slh.L[2] = Scalar(2, 0)
  /\ Len(result.Ls) = 1
  /\ IsZeroMat(result.Ls[1].data)

\* slh.space is a tensor factor of the full_space supplied
ContainsSLHSpace == SLHSpace(slh) \subseteq full_space.factors

\* C11 as stated: without a full_space SLH_to_qutip works in slh.space; with a
\* full_space that does not contain slh.space it raises the space-
\* compatibility error (AlgebraError) before H or an entry of L is converted
\* and returns nothing.
C11_SpaceOfSLHChecked ==
  ConvertedSLH =>
    /\ full_space.kind = "None" =>
         result = SLH_to_qutip(slh, Space(SLHSpace(slh)), time_symbol, convert_as)
    /\ full_space.kind = "space" /\ ~ContainsSLHSpace =>
         /\ result.status = "AlgebraError"
         /\ result.H = NoQobj
         /\ result.Ls = <<>>
         /\ result.trace = <<>>

ConvertedTD == pc = "done" /\ call = "_time_dependent_to_qutip"

\* the time symbol occurs in the term o
HasTime(o) == time_symbol \in all_symbols(o)

NoTimeIn(o) == ~HasTime(o)

\* the operator depends on time and its expansion is a sum
IsTimeDependentSum == HasTime(expr) /\ expand(expr).kind = "OperatorPlus"

\* the terms of the expanded sum without and with the time symbol, each in
\* operand order
StaticOperands == SelectSeq(expand(expr).ops, NoTimeIn)

TimeOperands == SelectSeq(expand(expr).ops, HasTime)

\* the sum of the conversions of the first n terms of es
RECURSIVE SumOfConversions(_, _)
SumOfConversions(es, n) ==
  IF n = 1 THEN convert_to_qutip(es[1], Ambient, NoMapping).q
  ELSE QAdd(SumOfConversions(es, n - 1), convert_to_qutip(es[n], Ambient, NoMapping).q)

\* the coefficient convert_as asks for
CoefficientOf(o) ==
  IF convert_as = "pyfunc" THEN PyfuncCoeff(o.args, time_symbol) ELSE StrCoeff(o.args)

\* from position first on, the list holds one [operator, coefficient] pair per
\* time-dependent term, in operand order, and nothing else
PairsInOrder(first) ==
  /\ Len(result.value.items) = first - 1 + Len(TimeOperands)
  /\ \A j \in 1..Len(TimeOperands) :
       result.value.items[first - 1 + j] =
         TDPair(convert_to_qutip(TimeOperands[j].ops[1], Ambient, NoMapping).q,
                CoefficientOf(TimeOperands[j]))

\* C12 as stated: for a time-dependent operator whose expansion is a sum with
\* s static and k >= 1 time-dependent terms the list returned is
\* [H0, [H1, c1], ..., [Hk, ck]]: a first element that is one numeric operator,
\* the sum of the conversions of the s static terms, followed by exactly k
\* pairs, one per time-dependent term in operand order.
C12_LeadingStaticPart ==
  ConvertedTD /\ IsTimeDependentSum /\ result.status = "ok" =>
    /\ result.value.form = "list"
    /\ Len(result.value.items) >= 1
    /\ result.value.items[1].form = "qobj"
    /\ Len(StaticOperands) >= 1 =>
         result.value.items[1] =
           TDStatic(SumOfConversions(StaticOperands, Len(StaticOperands)))
    /\ PairsInOrder(2)

\* C12: for a time-dependent operator whose expansion is a sum with s static
\* and k >= 1 time-dependent terms the list returned is, when s >= 1,
\* [H0, [H1, c1], ..., [Hk, ck]] with H0 one numeric operator, the sum of the
\* conversions of the s static terms, followed by exactly k pairs, one per
\* time-dependent term in operand order; when s = 0 it is the k pairs alone,
\* without a leading static element.
C12_StaticPartWhenPresent ==
  ConvertedTD /\ IsTimeDependentSum /\ result.status = "ok" =>
    /\ result.value.form = "list"
    /\ Len(TimeOperands) >= 1
    /\ IF Len(StaticOperands) >= 1
       THEN /\ result.value.items[1] =
                 TDStatic(SumOfConversions(StaticOperands, Len(StaticOperands)))
            /\ PairsInOrder(2)
       ELSE PairsInOrder(1)

C12_Witness ==
  /\ ConvertedTD
  /\ IsTimeDependentSum
  /\ result.status = "ok"
  /\ Len(expr.ops) = 3
  /\ NoTimeIn(expr.ops[1])
  /\ HasTime(expr.ops[2])
  /\ NoTimeIn(expr.ops[3])
  /\ Len(result.value.items) = 2
  /\ ~IsZeroMat(result.value.items[1].q.data)
  /\ result.value.items[1].q # convert_to_qutip(expr.ops[1], Ambient, NoMapping).q
  /\ result.value.items[1].q # convert_to_qutip(expr.ops[3], Ambient, NoMapping).q

\* the terms of the operator that contain the time symbol: those of the
\* expanded sum, or the expanded operator itself
TermsWithTime ==
  IF expand(expr).kind = "OperatorPlus" THEN TimeOperands ELSE <<expand(expr)>>

\* (scalar coefficient depending on time) x (operator without the time symbol)
IsCoefficientTimesOperator(o) ==
  /\ o.kind = "ScalarTimesOperator"
  /\ time_symbol \in free_symbols(o.args)
  /\ NoTimeIn(o.ops[1])

\* C13: in _time_dependent_to_qutip every term that contains the time symbol
\* must be a scalar coefficient depending on time times an operator without
\* the time symbol; when a term with the time symbol has any other shape (a
\* scalar multiple whose operator part contains the time symbol included) the
\* call raises an error and returns nothing.
C13_ShapeOfTimeTerms ==
  ConvertedTD /\ HasTime(expr) =>
    /\ Len(TermsWithTime) >= 1
    /\ (\E j \in 1..Len(TermsWithTime) : ~IsCoefficientTimesOperator(TermsWithTime[j]))
         => result.status # "ok" /\ result.value = NoTD
    /\ result.status = "ok" =>
         \A j \in 1..Len(TermsWithTime) : IsCoefficientTimesOperator(TermsWithTime[j])

C13_Witness ==
  /\ ConvertedTD
  /\ IsTimeDependentSum
  /\ convert_as = "str"
  /\ Len(TermsWithTime) = 1
  /\ TermsWithTime[1].kind = "ScalarTimesOperator"
  /\ time_symbol \in free_symbols(TermsWithTime[1].args)
  /\ HasTime(TermsWithTime[1].ops[1])
  /\ Len(StaticOperands) = 1
  /\ convert_to_qutip(StaticOperands[1], Ambient, NoMapping).status = "ok"
  /\ result.status = "TypeError"
  /\ result.value = NoTD

\* C14 as stated: every call of SLH_to_qutip or _time_dependent_to_qutip with
\* a convert_as other than 'pyfunc' or 'str' fails with the configuration
\* error (ValueError) and returns nothing, whatever the SLH triple, the
\* operator and the time symbol.
C14_ConvertAsValidated ==
  (ConvertedSLH \/ ConvertedTD) /\ convert_as \notin {"pyfunc", "str"} =>
    result.status = "ValueError"

KetOperations == {"KetPlus", "ScalarTimesKet", "TensorKet", "OperatorTimesKet"}

\* every operand of expr converts against the ambient space
OperandsConvert ==
  \A k \in 1..Len(expr.ops) :
    convert_to_qutip(expr.ops[k], Ambient, mapping).status = "ok"

\* C15 as stated: for a KetPlus, ScalarTimesKet, TensorKet or OperatorTimesKet
\* converted against full_space every operand is converted by a recursive
\* call that receives that same full_space, a Hilbert space, as its ambient
\* space, and the results are combined: the call returns a result when its
\* operands convert against full_space.
C15_KetOperandsInFullSpace ==
  Converted /\ expr.kind \in KetOperations /\ ~IsKey(expr) /\ InAmbient =>
    /\ \A i \in EventsOf("call") : result.trace[i].fs.kind = "space"
    /\ OperandsConvert => result.status = "ok"

\* the object the call returned
ReturnedObject == ObjectReturned(expr, full_space, mapping)

FreshUnlessMapped ==
  Converted /\ result.status = "ok" =>
    /\ ReturnedObject \in {"new", "stored", "callable"}
    /\ ReturnedObject = "stored" =>
         \E k \in DOMAIN mapping.d :
           /\ k \in {expr, expand(expr)}
           /\ mapping.d[k].isQobj
           /\ result.q = mapping.d[k].q
           /\ result.trace[Len(result.trace)] = MappedEv(k, mapping.d[k].q)
    /\ IsKey(expr) => ReturnedObject # "new"
    /\ ReturnedObject = "new" =>
         /\ ~IsKey(expr)
         /\ result.trace[2] = RuleEv(expr, Ambient)

Reduced == pc = "done" /\ call = "creduce"

PortConverted == pc = "done" /\ call = "toSLH"

\* the triple has a 1x1 identity S and a single entry of L, an operator
IsOneChannel(t) ==
  /\ t.S = <<<<1>>>>
  /\ Len(t.L) = 1
  /\ Len(t.L[1]) = 1
  /\ t.L[1][1].kind = "ScalarTimesOperator"

\* C17: creduce of a DoubleSidedOPO, KerrCavity or SingleSidedJaynesCummings
\* returns the concatenation of exactly CDIM = 2 sub-components of the
\* component, with sub_index 0 and 1 in this order; the SLH of the port with
\* sub_index 0 holds the Hamiltonian (a sum of operator terms) and that of
\* the other port has H = 0; every port has one 1x1 L entry and the 1x1
\* identity as S.
C17_PortsOfReducibleComponents ==
  /\ Reduced =>
       /\ Len(result) = CDIM
       /\ \A i \in 1..Len(result) :
            /\ result[i].parent = component
            /\ result[i].sub_index = i - 1
            /\ result[i] \in SubComponents
            /\ IsOneChannel(toSLH(result[i]))
            /\ (i = 1) <=> toSLH(result[i]).H.kind = "OperatorPlus"
            /\ (i # 1) <=> toSLH(result[i]).H = Scalar(0, 0)
  /\ PortConverted =>
       /\ IsOneChannel(result)
       /\ IF component.sub_index = 0 THEN result.H.kind = "OperatorPlus"
          ELSE result.H = Scalar(0, 0)

C17_Witness ==
  /\ Reduced
  /\ component.cls = "SingleSidedJaynesCummings"
  /\ Len(result) = 2
  /\ result[1].cls = "CavityPort"
  /\ result[2].cls = "DecayChannel"
  /\ toSLH(result[1]).H.kind = "OperatorPlus"
  /\ toSLH(result[2]).H = Scalar(0, 0)
  /\ toSLH(result[1]).L # toSLH(result[2]).L

Printed == pc = "rendered" /\ call = "printing"

\* e with its outermost registered sub-expressions replaced by components
\* that carry the registered names
RECURSIVE NamedByRegistry(_)
NamedByRegistry(e) ==
  IF e \in DOMAIN registry THEN CircuitLeaf(registry[e])
  ELSE Expr(e.kind, e.ls, e.args, [i \in 1..Len(e.ops) |-> NamedByRegistry(e.ops[i])])

\* the words of e rendered with an empty registry and an empty cache
PlainWords(e) == render(e, NoRegistry, NoRegistry, FALSE).text

\* the registered names among the words rendered
NamesUsed == {w \in {"B11", "B3", "main_term"} : \E i \in 1..Len(result.text) : result.text[i] = w}

\* C18: with cached rendering disabled every render reflects the registry as
\* it is at the call: with an empty registry (after clear_registry) no
\* registered name is used, after register and update_registry every
\* sub-expression that is a key is rendered as its name, and a registered
\* sub-expression that holds other registered sub-expressions is rendered as
\* its own name in place of the whole sub-expression.
C18_RenderReflectsRegistry ==
  Printed /\ ~cached_rendering =>
    /\ result.text = PlainWords(NamedByRegistry(expr))
    /\ registry = NoRegistry => NamesUsed = {} /\ result.text = PlainWords(expr)
    /\ MainTerm \in DOMAIN registry =>
         /\ NamesUsed = {registry[MainTerm]}
         /\ expr = MainTerm => result.text = <<registry[MainTerm]>>
    /\ MainTerm \notin DOMAIN registry =>
         NamesUsed = {registry[k] : k \in DOMAIN registry}

C18_Witness ==
  /\ Printed
  /\ ~cached_rendering
  /\ expr = LatchExpr
  /\ DOMAIN registry = {B11, B3, MainTerm}
  /\ NamesUsed = {"main_term"}
  /\ MainTerm \in DOMAIN cache
  /\ cache[MainTerm] # <<"main_term">>
  /\ LatchExpr \in DOMAIN cache
  /\ Len(cache[LatchExpr]) = Len(result.text)

\* the grouping step of the OperatorTimes rule is reached for expr: the
\* space check passed, expr is no key and no operand is nonlocal
GroupingReached ==
  /\ Converted
  /\ expr.kind = "OperatorTimes"
  /\ ~IsKey(expr)
  /\ InAmbient
  /\ \A i \in 1..Len(expr.ops) : Cardinality(space(expr.ops[i])) <= 1

\* the operands taken by the group of the local factor ls
GroupOf(ls) == {i \in 1..Len(expr.ops) : space(expr.ops[i]) = {ls}}

\* C19 as stated: whenever the grouping step of an OperatorTimes conversion
\* is reached with expr.space a tensor factor of full_space, the assertion
\* ck == len(expr.operands) holds: every operand is taken by exactly one
\* group of a local factor of full_space, and the call does not end with an
\* AssertionError (the mapping holds only objects and callables).
C19_AllOperandsGrouped ==
  GroupingReached /\ (\A k \in DOMAIN mapping.d : HasObject(k)) =>
    /\ \A i \in 1..Len(expr.ops) :
         \E ls \in Ambient.factors : i \in GroupOf(ls)
    /\ result.status # "AssertionError"

\* expr is an OperatorTimes with an operand on more than one local space,
\* and its rule is reached
HasNonlocalOperand ==
  /\ Converted
  /\ expr.kind = "OperatorTimes"
  /\ ~IsKey(expr)
  /\ InAmbient
  /\ \E i \in 1..Len(expr.ops) : Cardinality(space(expr.ops[i])) > 1

\* the number of expand-and-retry steps the conversion of e makes before it
\* reaches an expression that is not retried, up to n
RECURSIVE Retries(_, _)
Retries(e, n) ==
  IF n = 0 THEN 0
  ELSE IF /\ e.kind = "OperatorTimes"
          /\ (\E i \in 1..Len(e.ops) : Cardinality(space(e.ops[i])) > 1)
          /\ expand(e) # e
          /\ (mapping.none \/ e \notin DOMAIN mapping.d)
  THEN 1 + Retries(expand(e), n - 1)
  ELSE 0

\* C20: for an OperatorTimes with an operand acting on more than one local
\* space, if expand() returns an expression equal to the original the call
\* raises an error (ValueError) and returns nothing; otherwise the result is
\* that of converting the expanded expression against the same full_space
\* and mapping; the expansion is retried once at most, its result being a
\* sum that is not expanded again.
C20_ExpandAndRetry ==
  HasNonlocalOperand =>
    LET se == expand(expr)
        r  == convert_to_qutip(se, Ambient, mapping)
    IN  /\ se = expr =>
              /\ result.status = "ValueError"
              /\ result.q = NoQobj
              /\ result.trace = <<CallEv(expr, Ambient), RuleEv(expr, Ambient)>>
        /\ se # expr =>
              /\ result.status = r.status
              /\ result.q = r.q
              /\ result.trace = <<CallEv(expr, Ambient), RuleEv(expr, Ambient)>> \o r.trace
              /\ se.kind = "OperatorPlus"
              /\ Retries(expr, 3) = 1

C20_Witness ==
  /\ HasNonlocalOperand
  /\ expand(expr) # expr
  /\ result.status = "ok"
  /\ Len(AmbientDims) = 2
  /\ Len(result.trace) > 4
  /\ ~IsZeroMat(result.q.data)

\* the characters that separate names in the string form of a coefficient
Separators == {"*", "+", "-", "/", "(", ")", " "}

\* the character at position i of text is the imaginary unit: an I that is a
\* name of its own, not a character of a longer symbol or function name
IsImaginaryUnit(text, i) ==
  /\ text[i] = "I"
  /\ i > 1 => text[i - 1] \in Separators
  /\ i < Len(text) => text[i + 1] \in Separators

\* text from position i on, with the imaginary unit written as (1.0j) and
\* every other character kept
RECURSIVE UnitRewrittenFrom(_, _)
UnitRewrittenFrom(text, i) ==
  IF i > Len(text) THEN <<>>
  ELSE (IF IsImaginaryUnit(text, i) THEN <<"(", "1", ".", "0", "j", ")">>
        ELSE <<text[i]>>)
       \o UnitRewrittenFrom(text, i + 1)

\* the [operator, coefficient] pairs of the value returned, in order
ReturnedPairs ==
  IF result.value.form = "pair" THEN <<result.value>>
  ELSE SubSeq(result.value.items,
              Len(result.value.items) - Len(TermsWithTime) + 1,
              Len(result.value.items))

\* C21 as stated: with convert_as = 'str' the coefficient of every
\* time-dependent term of the value returned is the string form of the term's
\* symbolic coefficient in which every occurrence of the imaginary unit is
\* replaced by (1.0j) and every other character, the characters of symbol and
\* function names included, is unchanged.
C21_OnlyImaginaryUnitRewritten ==
  ConvertedTD /\ HasTime(expr) /\ convert_as = "str" /\ result.status = "ok" =>
    /\ Len(ReturnedPairs) = Len(TermsWithTime)
    /\ \A j \in 1..Len(TermsWithTime) :
         /\ ReturnedPairs[j].coeff.as = "str"
         /\ ReturnedPairs[j].coeff.text =
              UnitRewrittenFrom(CoeffText(TermsWithTime[j].args), 1)

\* the time symbol occurs in neither slh.H nor an entry of slh.L
TimeSymbolAbsent ==
  /\ time_symbol # NoTime
  /\ time_symbol \notin all_symbols(slh.H)
  /\ \A k \in 1..Len(slh.L) : time_symbol \notin all_symbols(slh.L[k])

\* what the same call returns with time_symbol=None
WithoutTimeSymbol == SLH_to_qutip(slh, full_space, NoTime, convert_as)

\* the value returned equals the value r0 of the call with time_symbol=None:
\* the same H, the same number of collapse operators, the same order
SameAs(r0) ==
  /\ (result.status = "ok") <=> (r0.status = "ok")
  /\ result.status = "ok" =>
       /\ result.H = TDStatic(r0.H)
       /\ Len(result.Ls) = Len(r0.Ls)
       /\ \A k \in 1..Len(r0.Ls) :
            k <= Len(result.Ls) /\ result.Ls[k] = TDStatic(r0.Ls[k])

\* C22 as stated: for every SLH triple in which the time symbol t occurs in
\* neither H nor an entry of L, SLH_to_qutip(slh, full_space, time_symbol=t)
\* returns the same (H, [L1, L2, ...]) as the call with time_symbol=None: the
\* same H, the same number of collapse operators, in the same order.
C22_SameAsWithoutTimeSymbol ==
  ConvertedSLH /\ TimeSymbolAbsent => SameAs(WithoutTimeSymbol)

\* the projector onto the null space of A, for a matrix A whose columns are
\* mutually orthogonal: the null space is spanned by the unit vectors e_j with
\* A e_j = 0
KernelProjector(A) ==
  [i \in 1..Cols(A) |->
    [j \in 1..Cols(A) |-> IF i = j /\ ColumnIsZero(A, j) THEN COne ELSE CZero]]

\* P is a Hermitian projector that A annihilates
ProjectsIntoKernel(A, P) ==
  /\ MatMul(P, P) = P
  /\ MatDag(P) = P
  /\ IsZeroMat(MatMul(A, P))

\* C23 as stated: for a NullSpaceProjector within the dimension limit the
\* result is the projector onto the null space of the converted operand, built
\* from exactly the right-singular vectors of the operand's null space; it
\* carries the operand's dimension list and is tagged Hermitian; when the
\* operand converts to the all-zero matrix every right-singular vector is
\* selected and the result is the identity.
C23_NullSpaceProjector ==
  Converted /\ expr.kind = "NullSpaceProjector" /\ ~IsKey(expr) /\ InAmbient
    /\ AmbientDimension <= DENSE_DIMENSION_LIMIT =>
    LET mo == convert_to_qutip(expr.ops[1], Ambient, mapping)
    IN  mo.status = "ok" =>
          /\ result.status = "ok"
          /\ result.q.dims = mo.q.dims
          /\ result.q.isherm
          /\ result.q.type = "oper"
          /\ ProjectsIntoKernel(mo.q.data, result.q.data)
          /\ result.q.data = KernelProjector(mo.q.data)
          /\ IsZeroMat(mo.q.data) => result.q.data = MatEye(Cols(mo.q.data))

====
